---- MODULE Spec2Model ----
(***************************************************************************)
(* Refresh-token / access-token lifecycle of learn_fastapi_auth.           *)
(*                                                                         *)
(* State: the users table, the refresh_tokens table, the wall clock, the   *)
(* loaded configuration, and a record of the last request served (its      *)
(* inputs, the response the route produced, the response the client got    *)
(* and the refresh_tokens table as it was before the request); the         *)
(* user_data and tokens tables; the requests in flight and the token       *)
(* strings whose rows a committed DELETE removed.                          *)
(* Under Spec every request handler is one action; under SpecConcurrent    *)
(* handlers run statement by statement and interleave.                     *)
(***************************************************************************)
EXTENDS Integers, FiniteSets, Sequences, TLC

VARIABLES users, refresh_tokens, now, env, last, user_data, tokens, procs, removed,
          path_storage, trace, mailbox, hashed_password, is_superuser, session

\* Two more columns of the users table, and the session of the admin
\* site's client (request.session of the SessionMiddleware).
admin == <<hashed_password, is_superuser, session>>

\* The state outside the database: the storage of the path rate limiter,
\* the middlewares the request in flight has entered and left, and the
\* users a verification token has been mailed to.
aux == <<path_storage, trace, mailbox, admin>>

vars == <<users, refresh_tokens, now, env, last, user_data, tokens, procs, removed, aux>>

(***************************************************************************)
(* Bounds and input alphabets                                              *)
(***************************************************************************)
UserIds == {"u1", "u2"}

TokenStrings == {"t1", "t2"}

\* The clock runs from 0 to MaxTime seconds.
MaxTime == 2

\* python None, for optional user ids and optional strings
None == "None"

\* The configurations the application is started with: the two refresh
\* lifetimes, in seconds. config.py defaults them to 7 and 30 days; the
\* model runs on a configuration of seconds, so that tokens expire within
\* MaxTime.
Envs ==
  { [refresh_token_lifetime |-> 1, remember_me_refresh_token_lifetime |-> 2,
     access_token_lifetime |-> 1] }

refresh_token_cookie_name == "refresh_token"

LoginPath == "/api/auth/login"

RefreshPath == "/api/auth/refresh"

LogoutPath == "/api/auth/logout"

LogoutAllPath == "/api/auth/logout-all"

OtherPath == "/api/user-data"

FirebasePath == "/api/auth/firebase"

\* Values of UserData.text_value a client writes
TextValues == {"", "x"}

\* Strings a request carries are sequences of characters, so that
\* str.lower() is computed and not assumed.
STrue == <<"t", "r", "u", "e">>

SFalse == <<"f", "a", "l", "s", "e">>

\* Values of the form field remember_me: the list of values the body holds
\* for the key, in order (<<>> is a body without the field).
RememberMeForms ==
  { <<>>,
    <<STrue>>,
    <<<<"T", "r", "U", "E">>>>,
    <<SFalse>>,
    <<<<"1">>>> }

\* Cookie values a client may send as the refresh cookie: nothing, the
\* empty string, or any token string.
CookieValues == {None, ""} \cup TokenStrings

(***************************************************************************)
(* Helpers                                                                 *)
(***************************************************************************)
Remove(f, S) == [k \in DOMAIN f \ S |-> f[k]]

Put(f, k, v) == [x \in DOMAIN f \cup {k} |-> IF x = k THEN v ELSE f[x]]

EmptyTable == [k \in {} |-> 0]

LowerChar(c) ==
  CASE c = "T" -> "t"
    [] c = "R" -> "r"
    [] c = "U" -> "u"
    [] c = "E" -> "e"
    [] c = "F" -> "f"
    [] c = "A" -> "a"
    [] c = "L" -> "l"
    [] c = "S" -> "s"
    [] c = "Y" -> "y"
    [] OTHER -> c

\* str.lower()
Lower(s) == [i \in 1..Len(s) |-> LowerChar(s[i])]

(***************************************************************************)
(* Responses                                                               *)
(***************************************************************************)
\* A response: status, the kind of body ("json", "empty", "malformed"),
\* the detail code of an error body, the access token of a token body
\* (None, "jwt" or "garbage") with the sub claim the jwt carries, the
\* Set-Cookie headers, and the count a logout-all message reports.
Response(status, body, detail, access_token, sub, set_cookie, revoked) ==
  [status |-> status, body |-> body, detail |-> detail,
   access_token |-> access_token, sub |-> sub,
   set_cookie |-> set_cookie, revoked |-> revoked]

ErrorResponse(status, detail) ==
  Response(status, "json", detail, None, None, {}, -1)

\* JWTStrategy.write_token(user): {sub: user.id, exp: now + lifetime}
TokenResponse(user_id) ==
  Response(200, "json", "", "jwt", user_id, {}, -1)

NoResponse == Response(0, "empty", "", None, None, {}, -1)

\* Response.delete_cookie(key, path): an expired, empty cookie
DeleteCookie(key, path) ==
  [key |-> key, value |-> "", max_age |-> 0, path |-> path, httponly |-> FALSE]

(***************************************************************************)
(* refresh_token.py                                                        *)
(***************************************************************************)
\* An optional lifetime argument is <<>> (None) or <<seconds>>.
ActualLifetime(lifetime_seconds, cfg) ==
  IF Len(lifetime_seconds) = 0 THEN cfg.refresh_token_lifetime
  ELSE lifetime_seconds[1]

\* create_refresh_token with the lifetime left out of expires_at
create_refresh_token_no_lifetime(store, token_str, user_id, lifetime_seconds, nowv, cfg) ==
  LET row == [user_id |-> user_id, expires_at |-> nowv]
  IN IF token_str \in DOMAIN store
     THEN [ok |-> FALSE, token |-> token_str, store |-> store]
     ELSE [ok |-> TRUE, token |-> token_str, store |-> Put(store, token_str, row)]

\* create_refresh_token returning the string without committing the row
create_refresh_token_no_commit(store, token_str, user_id, lifetime_seconds, nowv, cfg) ==
  [ok |-> TRUE, token |-> token_str, store |-> store]

\* create_refresh_token keeping one token per user: the user's earlier
\* rows are replaced by the new one
create_refresh_token_single_session(store, token_str, user_id, lifetime_seconds, nowv, cfg) ==
  LET expires_at == nowv + ActualLifetime(lifetime_seconds, cfg)
      row == [user_id |-> user_id, expires_at |-> expires_at]
      others == Remove(store, {t \in DOMAIN store : store[t].user_id = user_id})
  IN IF token_str \in DOMAIN store
     THEN [ok |-> FALSE, token |-> token_str, store |-> store]
     ELSE [ok |-> TRUE, token |-> token_str, store |-> Put(others, token_str, row)]

\* create_refresh_token, token_str being what generate_refresh_token drew.
\* The token string is the primary key of refresh_tokens: the commit of a
\* string that is already stored raises (ok = FALSE) and stores nothing.
create_refresh_token(store, token_str, user_id, lifetime_seconds, nowv, cfg) ==
  LET expires_at == nowv + ActualLifetime(lifetime_seconds, cfg)
      row == [user_id |-> user_id, expires_at |-> expires_at]
  IN IF token_str \in DOMAIN store
     THEN [ok |-> FALSE, token |-> token_str, store |-> store]
     ELSE [ok |-> TRUE, token |-> token_str, store |-> Put(store, token_str, row)]

\* validate_refresh_token with the expiry test written expires_at < now
validate_refresh_token_strict(store, token_str, nowv) ==
  IF token_str \notin DOMAIN store
  THEN [user_id |-> None, store |-> store]
  ELSE IF store[token_str].expires_at < nowv
       THEN [user_id |-> None, store |-> Remove(store, {token_str})]
       ELSE [user_id |-> store[token_str].user_id, store |-> store]

\* validate_refresh_token deleting the row of a token it accepts
\* (single use)
validate_refresh_token_single_use(store, token_str, nowv) ==
  IF token_str \notin DOMAIN store
  THEN [user_id |-> None, store |-> store]
  ELSE IF store[token_str].expires_at <= nowv
       THEN [user_id |-> None, store |-> Remove(store, {token_str})]
       ELSE [user_id |-> store[token_str].user_id,
             store |-> Remove(store, {token_str})]

\* validate_refresh_token: the user id or None, and the table afterwards
validate_refresh_token(store, token_str, nowv) ==
  IF token_str \notin DOMAIN store
  THEN [user_id |-> None, store |-> store]
  ELSE IF store[token_str].expires_at <= nowv
       THEN [user_id |-> None, store |-> Remove(store, {token_str})]
       ELSE [user_id |-> store[token_str].user_id, store |-> store]

\* revoke_refresh_token answering True whether or not a row was found
revoke_refresh_token_always_true(store, token_str) ==
  [ret |-> TRUE, store |-> Remove(store, {token_str})]

\* revoke_refresh_token
revoke_refresh_token(store, token_str) ==
  IF token_str \in DOMAIN store
  THEN [ret |-> TRUE, store |-> Remove(store, {token_str})]
  ELSE [ret |-> FALSE, store |-> store]

\* revoke_all_user_refresh_tokens with the WHERE clause left out
revoke_all_user_refresh_tokens_no_where(store, user_id) ==
  [rowcount |-> Cardinality(DOMAIN store), store |-> EmptyTable]

\* revoke_all_user_refresh_tokens: one bulk DELETE ... WHERE user_id = :id
revoke_all_user_refresh_tokens(store, user_id) ==
  LET rows == {t \in DOMAIN store : store[t].user_id = user_id}
  IN [rowcount |-> Cardinality(rows), store |-> Remove(store, rows)]

\* cleanup_expired_tokens deleting the tokens that expire within the next
\* second as well
cleanup_expired_tokens_early(store, nowv) ==
  LET rows == {t \in DOMAIN store : store[t].expires_at <= nowv + 1}
  IN [rowcount |-> Cardinality(rows), store |-> Remove(store, rows)]

\* cleanup_expired_tokens: one bulk DELETE ... WHERE expires_at <= now
cleanup_expired_tokens(store, nowv) ==
  LET rows == {t \in DOMAIN store : store[t].expires_at <= nowv}
  IN [rowcount |-> Cardinality(rows), store |-> Remove(store, rows)]

\* get_refresh_token_cookie_settings leaving the cookie readable by scripts
get_refresh_token_cookie_settings_script_readable(lifetime_seconds, cfg) ==
  [key |-> refresh_token_cookie_name,
   httponly |-> FALSE,
   max_age |-> ActualLifetime(lifetime_seconds, cfg),
   path |-> "/api/auth"]

\* get_refresh_token_cookie_settings, without the cookie's value
get_refresh_token_cookie_settings(lifetime_seconds, cfg) ==
  [key |-> refresh_token_cookie_name,
   httponly |-> TRUE,
   max_age |-> ActualLifetime(lifetime_seconds, cfg),
   path |-> "/api/auth"]

\* Response.set_cookie(value=..., **cookie_settings)
SetCookie(value, settings) ==
  [key |-> settings.key, value |-> value, max_age |-> settings.max_age,
   path |-> settings.path, httponly |-> settings.httponly]

(***************************************************************************)
(* core/middleware.py: the login middleware                                *)
(***************************************************************************)
\* ParseRememberMe comparing the value to "true" without lowering it
ParseRememberMe_case_sensitive(form) ==
  LET NonBlank(v) == Len(v) > 0
      kept == SelectSeq(form, NonBlank)
      remember_me_values == IF Len(kept) = 0 THEN <<SFalse>> ELSE kept
  IN remember_me_values[1] = STrue

\* parse_qs(body)["remember_me"]: blank values are dropped, a missing key
\* defaults to ["false"], the first value is lowered and compared to "true".
ParseRememberMe(form) ==
  LET NonBlank(v) == Len(v) > 0
      kept == SelectSeq(form, NonBlank)
      remember_me_values == IF Len(kept) = 0 THEN <<SFalse>> ELSE kept
  IN Lower(remember_me_values[1]) = STrue

\* IsLoginPost without the test of the path
IsLoginPost_any_path(path, method) == method = "POST"

IsLoginPost(path, method) == path = LoginPath /\ method = "POST"

\* The response the middleware returns when the try block did not return:
\* JSONResponse(content=json.loads(body) if body else {}, status, headers).
\* json.loads raises once more on a body that is no JSON, outside any try:
\* the server answers 500.
FallbackResponse(downstream) ==
  IF downstream.body = "malformed"
  THEN ErrorResponse(500, "Internal Server Error")
  ELSE [downstream EXCEPT !.body = "json"]

\* _add_refresh_token_on_login(request, call_next), downstream being the
\* response call_next returned and token_str the string that
\* generate_refresh_token draws if the middleware gets that far.
add_refresh_token_on_login(path, method, form, downstream, token_str, store, nowv, cfg) ==
  LET remember_me == IF IsLoginPost(path, method) THEN ParseRememberMe(form) ELSE FALSE
      token_lifetime == IF remember_me THEN cfg.remember_me_refresh_token_lifetime
                        ELSE cfg.refresh_token_lifetime
      created == create_refresh_token(store, token_str, downstream.sub,
                                      <<token_lifetime>>, nowv, cfg)
      cookie_settings == get_refresh_token_cookie_settings(<<token_lifetime>>, cfg)
  IN IF IsLoginPost(path, method) /\ downstream.status = 200
     THEN IF /\ downstream.body = "json"
             /\ downstream.access_token = "jwt"
             /\ downstream.sub # None
          THEN IF created.ok
               THEN [response |-> [downstream EXCEPT !.set_cookie =
                                     @ \cup {SetCookie(created.token, cookie_settings)}],
                     store |-> created.store,
                     lifetime |-> token_lifetime]
               ELSE [response |-> FallbackResponse(downstream), store |-> store,
                     lifetime |-> 0]
          ELSE [response |-> FallbackResponse(downstream), store |-> store,
                lifetime |-> 0]
     ELSE [response |-> downstream, store |-> store, lifetime |-> 0]

(***************************************************************************)
(* Route handlers                                                          *)
(***************************************************************************)
\* The login route of fastapi-users (get_auth_router, requires_verification
\* off): 200 with a freshly minted JWT for an existing, active user whose
\* password verifies, 400 LOGIN_BAD_CREDENTIALS otherwise.
LoginHandler(usrs, credentials) ==
  IF credentials # None /\ credentials \in DOMAIN usrs /\ usrs[credentials].is_active
  THEN TokenResponse(credentials)
  ELSE ErrorResponse(400, "LOGIN_BAD_CREDENTIALS")

\* The path rate-limit middleware in front of the login route: 429 when the
\* limiter's storage refuses the entry, the route's response otherwise.
PathRateLimit(limited, response) ==
  IF limited THEN ErrorResponse(429, "RATE_LIMIT_EXCEEDED") ELSE response

\* current_active_user: the caller a bearer token authenticates (None when
\* the request carries no valid token) must exist and be active.
Authenticated(usrs, caller) ==
  caller # None /\ caller \in DOMAIN usrs /\ usrs[caller].is_active

\* A bearer token as a request presents it: the sub and exp claims, and
\* whether the signature is the one SECRET_KEY gives.
AccessToken(sub, exp, signed) == [sub |-> sub, exp |-> exp, signed |-> signed]

\* current_active_user accepting a token only while its user holds a
\* refresh token
current_active_user_needs_refresh_token(usrs, store, bearer, nowv) ==
  IF /\ bearer.signed
     /\ bearer.exp > nowv
     /\ bearer.sub \in DOMAIN usrs
     /\ usrs[bearer.sub].is_active
     /\ \E t \in DOMAIN store : store[t].user_id = bearer.sub
  THEN bearer.sub
  ELSE None

\* fastapi_users.current_user(active=True) over JWTStrategy.read_token:
\* the token is decoded with the secret (signature and exp are checked),
\* the user its sub names is loaded and must be active. usrs and store
\* are the tables the request's session can read; the result is the
\* user, or None for a 401.
current_active_user(usrs, store, bearer, nowv) ==
  IF /\ bearer.signed
     /\ bearer.exp > nowv
     /\ bearer.sub \in DOMAIN usrs
     /\ usrs[bearer.sub].is_active
  THEN bearer.sub
  ELSE None

\* current_verified_user: the caller must also be verified.
Verified(usrs, caller) == Authenticated(usrs, caller) /\ usrs[caller].is_verified

Unauthorized == ErrorResponse(401, "Unauthorized")

ClearedCookieResponse(revoked) ==
  Response(200, "json", "", None, None,
           {DeleteCookie(refresh_token_cookie_name, "/api/auth")}, revoked)

\* refresh_access_token without the test of user.is_active
refresh_access_token_no_active_check(usrs, store, cookie, nowv) ==
  LET v == validate_refresh_token(store, cookie, nowv)
  IN IF cookie = None \/ cookie = ""
     THEN [response |-> ErrorResponse(401, "REFRESH_TOKEN_MISSING"),
           store |-> store, ret_user |-> None]
     ELSE IF v.user_id = None
          THEN [response |-> ErrorResponse(401, "REFRESH_TOKEN_INVALID"),
                store |-> v.store, ret_user |-> None]
          ELSE IF v.user_id \notin DOMAIN usrs
               THEN [response |-> ErrorResponse(401, "USER_INACTIVE"),
                     store |-> v.store, ret_user |-> v.user_id]
               ELSE [response |-> TokenResponse(v.user_id),
                     store |-> v.store, ret_user |-> v.user_id]

\* POST /api/auth/refresh
refresh_access_token(usrs, store, cookie, nowv) ==
  LET v == validate_refresh_token(store, cookie, nowv)
  IN IF cookie = None \/ cookie = ""
     THEN [response |-> ErrorResponse(401, "REFRESH_TOKEN_MISSING"),
           store |-> store, ret_user |-> None]
     ELSE IF v.user_id = None
          THEN [response |-> ErrorResponse(401, "REFRESH_TOKEN_INVALID"),
                store |-> v.store, ret_user |-> None]
          ELSE IF v.user_id \notin DOMAIN usrs \/ ~usrs[v.user_id].is_active
               THEN [response |-> ErrorResponse(401, "USER_INACTIVE"),
                     store |-> v.store, ret_user |-> v.user_id]
               ELSE [response |-> TokenResponse(v.user_id),
                     store |-> v.store, ret_user |-> v.user_id]

\* logout clearing the cookie without revoking the token
logout_without_revoke(usrs, store, caller, cookie) ==
  IF ~Authenticated(usrs, caller)
  THEN [response |-> Unauthorized, store |-> store, ret_bool |-> FALSE]
  ELSE [response |-> ClearedCookieResponse(-1), store |-> store,
        ret_bool |-> FALSE]

\* POST /api/auth/logout
logout(usrs, store, caller, cookie) ==
  LET r == revoke_refresh_token(store, cookie)
  IN IF ~Authenticated(usrs, caller)
     THEN [response |-> Unauthorized, store |-> store, ret_bool |-> FALSE]
     ELSE IF cookie # None /\ cookie # ""
          THEN [response |-> ClearedCookieResponse(-1), store |-> r.store,
                ret_bool |-> r.ret]
          ELSE [response |-> ClearedCookieResponse(-1), store |-> store,
                ret_bool |-> FALSE]

\* POST /api/auth/logout-all
logout_all_devices(usrs, store, caller) ==
  LET r == revoke_all_user_refresh_tokens(store, caller)
  IN IF ~Authenticated(usrs, caller)
     THEN [response |-> Unauthorized, store |-> store]
     ELSE [response |-> ClearedCookieResponse(r.rowcount), store |-> r.store]

\* POST /api/auth/firebase with Firebase enabled. identity is the user the
\* uid or the email of the verified ID token belongs to, or will belong to
\* (None: the ID token does not verify). An unknown identity becomes a new
\* active, verified user with a UserData row, committed before the tokens
\* are made; create_refresh_token raising ends the request with a 500.
firebase_login(usrs, udata, store, identity, token_str, nowv, cfg) ==
  LET is_new_user == identity \notin DOMAIN usrs
      usrs2 == IF is_new_user
               THEN Put(usrs, identity, [is_active |-> TRUE, is_verified |-> TRUE])
               ELSE usrs
      udata2 == IF is_new_user THEN Put(udata, identity, "") ELSE udata
      created == create_refresh_token(store, token_str, identity,
                                      <<cfg.refresh_token_lifetime>>, nowv, cfg)
      cookie_settings ==
        get_refresh_token_cookie_settings(<<cfg.refresh_token_lifetime>>, cfg)
  IN IF identity = None
     THEN [response |-> ErrorResponse(401, "FIREBASE_TOKEN_INVALID"),
           users |-> usrs, user_data |-> udata, store |-> store, lifetime |-> 0]
     ELSE IF ~created.ok
          THEN [response |-> ErrorResponse(500, "Internal Server Error"),
                users |-> usrs2, user_data |-> udata2, store |-> store,
                lifetime |-> 0]
          ELSE [response |-> [TokenResponse(identity) EXCEPT !.set_cookie =
                                {SetCookie(created.token, cookie_settings)}],
                users |-> usrs2, user_data |-> udata2, store |-> created.store,
                lifetime |-> cfg.refresh_token_lifetime]

\* GET /api/user-data: the caller's row, created empty if there is none
get_user_data(usrs, udata, caller) ==
  IF ~Verified(usrs, caller)
  THEN [response |-> Unauthorized, user_data |-> udata]
  ELSE [response |-> Response(200, "json", "", None, None, {}, -1),
        user_data |-> IF caller \in DOMAIN udata THEN udata
                      ELSE Put(udata, caller, "")]

\* PUT /api/user-data: the caller's row is created or updated
update_user_data(usrs, udata, caller, text_value) ==
  IF ~Verified(usrs, caller)
  THEN [response |-> Unauthorized, user_data |-> udata]
  ELSE [response |-> Response(200, "json", "", None, None, {}, -1),
        user_data |-> Put(udata, caller, text_value)]

\* store_token: a Token row for the access token; the token string is
\* the primary key.
store_token(table, token_str, user_id, nowv, cfg) ==
  IF token_str \in DOMAIN table
  THEN [ok |-> FALSE, table |-> table]
  ELSE [ok |-> TRUE,
        table |-> Put(table, token_str,
                      [user_id |-> user_id,
                       expires_at |-> nowv + cfg.access_token_lifetime])]

(***************************************************************************)
(* The record of the last request                                          *)
(***************************************************************************)
\* op: which handler ran; path, method, cookie, caller, form: the request;
\* downstream: what the route (behind the login middleware) answered;
\* response: what the client received; pre: refresh_tokens before the
\* request; ret_user, ret_bool: what
\* validate_refresh_token / revoke_refresh_token returned; token: the
\* string generate_refresh_token drew; lifetime: the lifetime the login
\* middleware passed to create_refresh_token (0: it created nothing);
\* again: the previous request was to the same handler with the same
\* cookie, and it succeeded (a refresh answered 200, a logout removed the
\* token).
Last(op, path, method, cookie, caller, form, downstream, response, pre, ret_user, ret_bool, token, lifetime, again) ==
  [op |-> op, path |-> path, method |-> method, cookie |-> cookie,
   caller |-> caller, form |-> form, downstream |-> downstream,
   response |-> response, pre |-> pre, ret_user |-> ret_user,
   ret_bool |-> ret_bool, token |-> token, lifetime |-> lifetime,
   again |-> again]

Idle ==
  Last("idle", "", "", None, None, <<>>, NoResponse, NoResponse, EmptyTable,
       None, FALSE, None, 0, FALSE)

(***************************************************************************)
(* Requests in flight (used where handlers interleave)                     *)
(***************************************************************************)
ProcIds == {"p1", "p2"}

\* A request in flight: the operation, its argument (a user id or a token
\* string), where it stands, the row a select returned, the rows a DELETE
\* statement matched, the access token's sub, the refresh cookie of the
\* response, what the function returned, and whether it raised.
Proc(op, arg, pc, found, pending, sub, cookie, ret, raised) ==
  [op |-> op, arg |-> arg, pc |-> pc, found |-> found, pending |-> pending,
   sub |-> sub, cookie |-> cookie, ret |-> ret, raised |-> raised]

NoRow == [user_id |-> None, expires_at |-> 0]

IdleProc == Proc("idle", None, "idle", NoRow, {}, None, None, None, FALSE)

NoProcs == [p \in ProcIds |-> IdleProc]

(***************************************************************************)
(* ratelimit.py: the path rate limiter                                     *)
(***************************************************************************)
ForgotPasswordPath == "/api/auth/forgot-password"

\* A page route outside /api: GET /auth/verify-email redirects
PagePath == "/auth/verify-email"

\* get_client_ip: the first address of X-Forwarded-For, or the remote
\* address
get_client_ip(forwarded_for, client_host) ==
  IF Len(forwarded_for) > 0 THEN forwarded_for[1] ELSE client_host

\* limits.parse("<amount>/<granularity>")
RateLimitItem(amount, granularity) == [amount |-> amount, granularity |-> granularity]

\* RateLimitItem.get_expiry(): the seconds of the granularity
get_expiry(item) ==
  CASE item.granularity = "second" -> 1
    [] item.granularity = "minute" -> 60
    [] item.granularity = "hour" -> 3600
    [] OTHER -> 86400

\* The limits the model is configured with (RATE_LIMIT_LOGIN=2/second,
\* RATE_LIMIT_FORGOT_PASSWORD=1/second), so that windows pass within
\* MaxTime.
rate_limit_login == RateLimitItem(2, "second")

rate_limit_forgot_password == RateLimitItem(1, "second")

\* setup_path_rate_limits: the dict of path prefixes and limits, in order
path_rate_limits ==
  << <<LoginPath, rate_limit_login>>,
     <<ForgotPasswordPath, rate_limit_forgot_password>> >>

\* str.startswith
StartsWith(s, prefix) ==
  Len(s) >= Len(prefix) /\ SubSeq(s, 1, Len(prefix)) = prefix

\* key = f"{path_identifier}:{client_ip}"
Key(path_identifier, client_ip) == path_identifier \o ":" \o client_ip

\* LockableEntry(expiry): the time of the entry and the time it expires
LockableEntry(nowv, expiry) == [atime |-> nowv, expiry |-> nowv + expiry]

\* The events MemoryStorage holds for a key, newest first
Events(storage, key) == IF key \in DOMAIN storage THEN storage[key] ELSE <<>>

\* MemoryStorage's timer: the entries that have expired are dropped, and
\* so are the keys left without entries. An entry is kept through the
\* instant it expires at, as acquire_entry still counts it then.
ExpireEvents(storage, nowv) ==
  LET Alive(entry) == entry.expiry >= nowv
      kept == {k \in DOMAIN storage : Len(SelectSeq(storage[k], Alive)) > 0}
  IN [k \in kept |-> SelectSeq(storage[k], Alive)]

\* acquire_entry counting the entries of every key
acquire_entry_shared_counter(storage, key, limit, expiry, nowv) ==
  LET total == Cardinality({<<k, i>> \in (DOMAIN storage) \X (1..limit) :
                              i <= Len(storage[k]) /\ storage[k][i].atime >= nowv - expiry})
  IN IF total >= limit
     THEN [ok |-> FALSE, storage |-> storage]
     ELSE [ok |-> TRUE,
           storage |-> Put(storage, key,
                           <<LockableEntry(nowv, expiry)>> \o Events(storage, key))]

\* MemoryStorage.acquire_entry(key, limit, expiry): a moving window. The
\* entry at index limit - 1 of the key's events (newest first) is the
\* limit-th last one admitted; the request is refused when that entry is
\* not older than expiry seconds, and is recorded otherwise.
acquire_entry(storage, key, limit, expiry, nowv) ==
  LET events == Events(storage, key)
  IN IF Len(events) >= limit /\ events[limit].atime >= nowv - expiry
     THEN [ok |-> FALSE, storage |-> storage]
     ELSE [ok |-> TRUE,
           storage |-> Put(storage, key, <<LockableEntry(nowv, expiry)>> \o events)]

\* check_path_rate_limit: ok = FALSE is PathRateLimitExceeded
check_path_rate_limit(storage, forwarded_for, client_host, limit, path_identifier, nowv) ==
  LET client_ip == get_client_ip(forwarded_for, client_host)
      key == Key(path_identifier, client_ip)
  IN acquire_entry(storage, key, limit.amount, get_expiry(limit), nowv)

\* The first entry of path_limits whose prefix the path starts with
\* (0: none)
MatchingLimit(path) ==
  LET matching == {i \in 1..Len(path_rate_limits) : StartsWith(path, path_rate_limits[i][1])}
  IN IF matching = {} THEN 0
     ELSE CHOOSE i \in matching : \A j \in matching : i <= j

\* reset_rate_limit_storage
reset_rate_limit_storage == EmptyTable

(***************************************************************************)
(* Initial state: an empty database, the clock at 0, a loaded config       *)
(***************************************************************************)
\* _path_storage = MemoryStorage(); no request in flight
AuxInit ==
  /\ path_storage = EmptyTable
  /\ trace = <<>>
  /\ mailbox = {}
  /\ hashed_password = EmptyTable
  /\ is_superuser = EmptyTable
  /\ session = EmptyTable

Init ==
  /\ users = EmptyTable
  /\ refresh_tokens = EmptyTable
  /\ now = 0
  /\ env \in Envs
  /\ last = Idle
  /\ user_data = EmptyTable
  /\ tokens = EmptyTable
  /\ procs = NoProcs
  /\ removed = {}
  /\ AuxInit

(***************************************************************************)
(* Time                                                                    *)
(***************************************************************************)
Tick ==
  /\ now < MaxTime
  /\ now' = now + 1
  /\ last' = Idle
  /\ path_storage' = ExpireEvents(path_storage, now + 1)
  /\ UNCHANGED <<users, refresh_tokens, env, user_data, tokens, procs, removed, trace, mailbox, admin>>

(***************************************************************************)
(* Users                                                                   *)
(***************************************************************************)
\* POST /api/auth/register, then UserManager.on_after_register: the new
\* user is left inactive and unverified.
Register(u) ==
  /\ u \notin DOMAIN users
  /\ users' = Put(users, u, [is_active |-> FALSE, is_verified |-> FALSE])
  /\ last' = Idle
  /\ UNCHANGED <<refresh_tokens, now, env, user_data, tokens, procs, removed, aux>>

\* POST /api/auth/verify, then UserManager.on_after_verify: the user
\* becomes verified and active, and gets a UserData row if none exists.
Verify(u) ==
  /\ u \in DOMAIN users
  /\ ~users[u].is_verified
  /\ users' = [users EXCEPT ![u] = [is_active |-> TRUE, is_verified |-> TRUE]]
  /\ user_data' = IF u \in DOMAIN user_data THEN user_data ELSE Put(user_data, u, "")
  /\ last' = Idle
  /\ UNCHANGED <<refresh_tokens, now, env, tokens, procs, removed, aux>>

\* PATCH /api/users/{id} by a superuser: a verified account is deactivated
\* or reactivated.
UpdateUser(u, active) ==
  /\ u \in DOMAIN users
  /\ users[u].is_verified
  /\ users[u].is_active # active
  /\ users' = [users EXCEPT ![u].is_active = active]
  /\ last' = Idle
  /\ UNCHANGED <<refresh_tokens, now, env, user_data, tokens, procs, removed, aux>>

\* A relationship without a delete cascade: the rows stay
CascadeDelete_none(store, u) == store

\* User.refresh_tokens and User.tokens are cascade="all, delete-orphan":
\* deleting a user deletes the rows of the table whose user_id is the user.
CascadeDelete(store, u) == Remove(store, {t \in DOMAIN store : store[t].user_id = u})

\* DELETE /api/users/{id} by a superuser
DeleteUser(u) ==
  /\ u \in DOMAIN users
  /\ users' = Remove(users, {u})
  /\ refresh_tokens' = CascadeDelete(refresh_tokens, u)
  /\ tokens' = CascadeDelete(tokens, u)
  /\ user_data' = Remove(user_data, {u})
  /\ last' = Last("delete_user", "", "", None, u, <<>>, NoResponse, NoResponse,
                  refresh_tokens, None, FALSE, None, 0, FALSE)
  /\ UNCHANGED <<now, env, procs, removed, aux>>

(***************************************************************************)
(* Requests                                                                *)
(***************************************************************************)
\* LoginRequest with the middleware decoding the bearer token of the
\* request, when there is one, in place of the token of the response
LoginRequest_sub_from_request(credentials, form, authorization, limited, token_str) ==
  LET downstream == PathRateLimit(limited, LoginHandler(users, credentials))
      decoded == IF authorization # None /\ downstream.sub # None
                 THEN [downstream EXCEPT !.sub = authorization]
                 ELSE downstream
      r == add_refresh_token_on_login(LoginPath, "POST", form, decoded,
                                      token_str, refresh_tokens, now, env)
  IN /\ refresh_tokens' = r.store
     /\ last' = Last("login", LoginPath, "POST", None, authorization, form,
                     downstream,
                     IF r.lifetime # 0
                     THEN [downstream EXCEPT !.set_cookie = r.response.set_cookie]
                     ELSE r.response,
                     refresh_tokens, None, FALSE,
                     IF r.lifetime # 0 THEN token_str ELSE None, r.lifetime, FALSE)
     /\ UNCHANGED <<users, now, env, user_data, tokens, procs, removed, aux>>

\* POST /api/auth/login: login middleware -> path rate limit -> login route.
\* credentials is the user whose email and password the form carries
\* (None: no user has them); authorization: the sub claim of a bearer
\* token the client put in the Authorization header of the request, forged
\* or not (None: no such header); limited: the path limiter refuses the
\* request; token_str: what generate_refresh_token draws if it is called.
LoginRequest(credentials, form, authorization, limited, token_str) ==
  LET downstream == PathRateLimit(limited, LoginHandler(users, credentials))
      r == add_refresh_token_on_login(LoginPath, "POST", form, downstream,
                                      token_str, refresh_tokens, now, env)
  IN /\ refresh_tokens' = r.store
     /\ last' = Last("login", LoginPath, "POST", None, authorization, form,
                     downstream,
                     r.response, refresh_tokens, None, FALSE,
                     IF r.lifetime # 0 THEN token_str ELSE None, r.lifetime, FALSE)
     /\ UNCHANGED <<users, now, env, user_data, tokens, procs, removed, aux>>

\* A login the path limiter admits
Login(credentials, form, token_str) ==
  LoginRequest(credentials, form, None, FALSE, token_str)

\* A login whose request also carries an Authorization header with a
\* bearer token naming the user authorization
LoginWithBearer(credentials, authorization, token_str) ==
  LoginRequest(credentials, <<>>, authorization, FALSE, token_str)

\* A login the path limiter refuses: the login route never runs
LoginRateLimited(form) ==
  LoginRequest(None, form, None, TRUE, None)

\* POST /api/auth/refresh
Refresh(cookie) ==
  LET h == refresh_access_token(users, refresh_tokens, cookie, now)
      r == add_refresh_token_on_login(RefreshPath, "POST", <<>>, h.response,
                                      None, h.store, now, env)
  IN /\ refresh_tokens' = r.store
     /\ last' = Last("refresh", RefreshPath, "POST", cookie, None, <<>>,
                     h.response, r.response, refresh_tokens, h.ret_user,
                     FALSE, None, r.lifetime,
                     /\ last.op = "refresh"
                     /\ last.cookie = cookie
                     /\ last.response.status = 200)
     /\ UNCHANGED <<users, now, env, user_data, tokens, procs, removed, aux>>

\* POST /api/auth/logout
Logout(caller, cookie) ==
  LET h == logout(users, refresh_tokens, caller, cookie)
      r == add_refresh_token_on_login(LogoutPath, "POST", <<>>, h.response,
                                      None, h.store, now, env)
  IN /\ refresh_tokens' = r.store
     /\ last' = Last("logout", LogoutPath, "POST", cookie, caller, <<>>,
                     h.response, r.response, refresh_tokens, None,
                     h.ret_bool, None, r.lifetime,
                     /\ last.op = "logout"
                     /\ last.cookie = cookie
                     /\ last.ret_bool)
     /\ UNCHANGED <<users, now, env, user_data, tokens, procs, removed, aux>>

\* POST /api/auth/logout-all
LogoutAll(caller) ==
  LET h == logout_all_devices(users, refresh_tokens, caller)
      r == add_refresh_token_on_login(LogoutAllPath, "POST", <<>>, h.response,
                                      None, h.store, now, env)
  IN /\ refresh_tokens' = r.store
     /\ last' = Last("logout_all", LogoutAllPath, "POST", None, caller, <<>>,
                     h.response, r.response, refresh_tokens, None,
                     FALSE, None, r.lifetime, FALSE)
     /\ UNCHANGED <<users, now, env, user_data, tokens, procs, removed, aux>>

\* cleanup_expired_tokens run by a periodic job
CleanupExpired ==
  LET r == cleanup_expired_tokens(refresh_tokens, now)
      report == [NoResponse EXCEPT !.revoked = r.rowcount]
  IN /\ refresh_tokens' = r.store
     /\ last' = Last("cleanup", "", "", None, None, <<>>, report, report,
                     refresh_tokens, None, FALSE, None, 0, FALSE)
     /\ UNCHANGED <<users, now, env, user_data, tokens, procs, removed, aux>>

\* POST /api/auth/firebase
FirebaseLogin(identity, token_str) ==
  LET h == firebase_login(users, user_data, refresh_tokens, identity,
                          token_str, now, env)
      r == add_refresh_token_on_login(FirebasePath, "POST", <<>>, h.response,
                                      None, h.store, now, env)
  IN /\ users' = h.users
     /\ user_data' = h.user_data
     /\ refresh_tokens' = r.store
     /\ last' = Last("firebase", FirebasePath, "POST", None, identity, <<>>,
                     h.response, r.response, refresh_tokens, None, FALSE,
                     IF h.lifetime # 0 THEN token_str ELSE None, h.lifetime,
                     FALSE)
     /\ UNCHANGED <<now, env, tokens, procs, removed, aux>>

\* GET /api/user-data
GetUserData(caller) ==
  LET h == get_user_data(users, user_data, caller)
  IN /\ user_data' = h.user_data
     /\ last' = Last("get_user_data", OtherPath, "GET", None, caller, <<>>,
                     h.response, h.response, refresh_tokens, None, FALSE,
                     None, 0, FALSE)
     /\ UNCHANGED <<users, refresh_tokens, now, env, tokens, procs, removed, aux>>

\* PUT /api/user-data
UpdateUserData(caller, text_value) ==
  LET h == update_user_data(users, user_data, caller, text_value)
  IN /\ user_data' = h.user_data
     /\ last' = Last("update_user_data", OtherPath, "PUT", None, caller, <<>>,
                     h.response, h.response, refresh_tokens, None, FALSE,
                     None, 0, FALSE)
     /\ UNCHANGED <<users, refresh_tokens, now, env, tokens, procs, removed, aux>>

\* store_token called for the access token of the request's user. No
\* route calls store_token; this is the call its signature is made for.
StoreToken(caller, token_str) ==
  LET r == store_token(tokens, token_str, caller, now, env)
  IN /\ Authenticated(users, caller)
     /\ tokens' = r.table
     /\ last' = Last("store_token", "", "", None, caller, <<>>, NoResponse,
                     NoResponse, refresh_tokens, None, r.ok, None, 0, FALSE)
     /\ UNCHANGED <<users, refresh_tokens, now, env, user_data, procs, removed, aux>>

\* The requests to other routes, as far as the login middleware can
\* tell: GET on the login path is answered 405; another path answers 200
\* or 401.
OtherRequests ==
  { <<LoginPath, "GET", 405>>,
    <<OtherPath, "GET", 200>>, <<OtherPath, "GET", 401>>,
    <<OtherPath, "POST", 200>>, <<OtherPath, "POST", 401>> }

\* Any other request: it passes the login middleware, and its route does
\* not touch the refresh tokens.
OtherRequest(path, method, status) ==
  LET downstream == Response(status, "json", "", None, None, {}, -1)
      r == add_refresh_token_on_login(path, method, <<>>, downstream,
                                      None, refresh_tokens, now, env)
  IN /\ refresh_tokens' = r.store
     /\ last' = Last("other", path, method, None, None, <<>>, downstream,
                     r.response, refresh_tokens, None, FALSE, None,
                     r.lifetime, FALSE)
     /\ UNCHANGED <<users, now, env, user_data, tokens, procs, removed, aux>>

Next ==
  \/ Tick
  \/ \E u \in UserIds : Register(u)
  \/ \E u \in UserIds : Verify(u)
  \/ \E u \in UserIds, active \in BOOLEAN : UpdateUser(u, active)
  \/ \E u \in UserIds : DeleteUser(u)
  \/ \E credentials \in UserIds \cup {None}, form \in RememberMeForms,
        token_str \in TokenStrings : Login(credentials, form, token_str)
  \/ \E credentials \in UserIds, authorization \in UserIds,
        token_str \in TokenStrings :
          LoginWithBearer(credentials, authorization, token_str)
  \/ \E form \in RememberMeForms : LoginRateLimited(form)
  \/ \E cookie \in CookieValues : Refresh(cookie)
  \/ \E caller \in UserIds \cup {None}, cookie \in CookieValues : Logout(caller, cookie)
  \/ \E caller \in UserIds \cup {None} : LogoutAll(caller)
  \/ CleanupExpired
  \/ \E q \in OtherRequests : OtherRequest(q[1], q[2], q[3])

Spec == Init /\ [][Next]_vars

(***************************************************************************)
(* Configuration loading: Config.from_env over the process environment    *)
(***************************************************************************)
\* The value of a decimal digit, -1 for any other character
DigitValue(c) ==
  CASE c = "0" -> 0 [] c = "1" -> 1 [] c = "2" -> 2 [] c = "3" -> 3
    [] c = "4" -> 4 [] c = "5" -> 5 [] c = "6" -> 6 [] c = "7" -> 7
    [] c = "8" -> 8 [] c = "9" -> 9 [] OTHER -> -1

\* int(s) returns for these strings (it raises ValueError otherwise)
IsInt(s) == Len(s) > 0 /\ \A i \in 1..Len(s) : DigitValue(s[i]) >= 0

RECURSIVE ParseInt(_)
\* int(s) for a string of decimal digits
ParseInt(s) ==
  IF Len(s) = 0 THEN 0
  ELSE ParseInt(SubSeq(s, 1, Len(s) - 1)) * 10 + DigitValue(s[Len(s)])

\* The defaults from_env passes to os.environ.get
DefaultRefreshTokenLifetime == <<"6", "0", "4", "8", "0", "0">>

DefaultRememberMeRefreshTokenLifetime == <<"2", "5", "9", "2", "0", "0", "0">>

DefaultAccessTokenLifetime == <<"3", "6", "0", "0">>

\* Values of an environment variable: unset (None) or a string
EnvValues == {None, <<"1">>, <<"2">>, <<"3">>, <<"1", "0">>, <<"x">>}

\* The process environments the application is started in
Environs ==
  [ {"REFRESH_TOKEN_LIFETIME", "REMEMBER_ME_REFRESH_TOKEN_LIFETIME"} -> EnvValues ]

\* os.environ.get(key, default)
Getenv(environ, key, default) ==
  IF environ[key] = None THEN default ELSE environ[key]

\* from_env returns a Config (no int() raises)
from_env_accepts(environ) ==
  /\ IsInt(Getenv(environ, "REFRESH_TOKEN_LIFETIME", DefaultRefreshTokenLifetime))
  /\ IsInt(Getenv(environ, "REMEMBER_ME_REFRESH_TOKEN_LIFETIME",
                  DefaultRememberMeRefreshTokenLifetime))

\* Config.from_env: the lifetimes are int() of the variables, or of the
\* defaults; nothing compares them.
from_env(environ) ==
  [refresh_token_lifetime |->
     ParseInt(Getenv(environ, "REFRESH_TOKEN_LIFETIME", DefaultRefreshTokenLifetime)),
   remember_me_refresh_token_lifetime |->
     ParseInt(Getenv(environ, "REMEMBER_ME_REFRESH_TOKEN_LIFETIME",
                     DefaultRememberMeRefreshTokenLifetime)),
   access_token_lifetime |-> ParseInt(DefaultAccessTokenLifetime)]

\* The application starts with the configuration from_env returns.
InitConfig ==
  /\ users = EmptyTable
  /\ refresh_tokens = EmptyTable
  /\ now = 0
  /\ \E environ \in Environs :
       from_env_accepts(environ) /\ env = from_env(environ)
  /\ last = Idle
  /\ user_data = EmptyTable
  /\ tokens = EmptyTable
  /\ procs = NoProcs
  /\ removed = {}
  /\ AuxInit

NextConfig ==
  \/ \E u \in UserIds : Register(u)
  \/ \E u \in UserIds : Verify(u)
  \/ \E credentials \in UserIds, form \in {<<>>, <<STrue>>},
        token_str \in TokenStrings : Login(credentials, form, token_str)
  \/ \E caller \in UserIds : LogoutAll(caller)

SpecConfig == InitConfig /\ [][NextConfig]_vars

(***************************************************************************)
(* The accounts and their rows: the three tables that reference users,     *)
(* with every route that writes them                                       *)
(***************************************************************************)
NextAccounts ==
  \/ \E u \in UserIds : Register(u)
  \/ \E u \in UserIds : Verify(u)
  \/ \E u \in UserIds : DeleteUser(u)
  \/ \E credentials \in UserIds, token_str \in TokenStrings :
        Login(credentials, <<>>, token_str)
  \/ \E identity \in UserIds \cup {None}, token_str \in TokenStrings :
        FirebaseLogin(identity, token_str)
  \/ \E caller \in UserIds : GetUserData(caller)
  \/ \E caller \in UserIds, text_value \in TextValues :
        UpdateUserData(caller, text_value)
  \/ \E caller \in UserIds, token_str \in TokenStrings :
        StoreToken(caller, token_str)

SpecAccounts == Init /\ [][NextAccounts]_vars

(***************************************************************************)
(* Interleaved handlers: each request runs statement by statement, every   *)
(* await on the database being a point where another request may run.      *)
(* refresh_tokens is the committed table; a request's uncommitted DELETE   *)
(* is in its pending field.                                                *)
(***************************************************************************)
\* The requests a client may start: the operation and its argument
Requests ==
  ( {"login", "revoke_all"} \X UserIds ) \cup ( {"validate", "revoke"} \X TokenStrings )

\* Two verified, active users with their UserData rows, no token yet
InitConcurrent ==
  /\ users = [u \in UserIds |-> [is_active |-> TRUE, is_verified |-> TRUE]]
  /\ refresh_tokens = EmptyTable
  /\ now = 0
  /\ env \in Envs
  /\ last = Idle
  /\ user_data = [u \in UserIds |-> ""]
  /\ tokens = EmptyTable
  /\ procs = NoProcs
  /\ removed = {}
  /\ AuxInit

\* The rows other requests' uncommitted DELETE statements hold locked
Locked(p) ==
  UNION { procs[q].pending : q \in {r \in ProcIds \ {p} : procs[r].pc = "executed"} }

\* The row a select by primary key returns
SelectRow(store, token_str) ==
  IF token_str \in DOMAIN store THEN store[token_str] ELSE NoRow

\* session.delete(row) raising when the DELETE matches no row
OrmDelete_stale_error(store, token_str) ==
  [raised |-> token_str \notin DOMAIN store, store |-> Remove(store, {token_str})]

\* session.delete(row); session.commit(): DELETE ... WHERE token = :pk.
\* SQLAlchemy only warns when the statement matches no row.
OrmDelete(store, token_str) ==
  [raised |-> FALSE, store |-> Remove(store, {token_str})]

\* A commit that applies the DELETE to the first matched row only
CommitDelete_first_row_only(store, pending) ==
  IF pending = {} THEN store
  ELSE Remove(store, {CHOOSE t \in pending : TRUE})

\* session.commit() of a bulk DELETE: every matched row goes at once
CommitDelete(store, pending) == Remove(store, pending)

StartRequest(p, op, arg) ==
  /\ procs[p].pc = "idle"
  /\ procs' = [procs EXCEPT ![p] =
                 Proc(op, arg, "start", NoRow, {}, None, None, None, FALSE)]
  /\ UNCHANGED <<users, refresh_tokens, now, env, last, user_data, tokens, removed, aux>>

\* call_next(request): the login route mints the access token
LoginMint(p) ==
  LET h == LoginHandler(users, procs[p].arg)
  IN /\ procs[p].op = "login"
     /\ procs[p].pc = "start"
     /\ procs' = [procs EXCEPT ![p].sub = h.sub,
                               ![p].pc = IF h.status = 200 THEN "minted" ELSE "done"]
     /\ UNCHANGED <<users, refresh_tokens, now, env, last, user_data, tokens, removed, aux>>

\* create_refresh_token in the middleware: session.add, session.commit
LoginPersist(p, token_str) ==
  LET c == create_refresh_token(refresh_tokens, token_str, procs[p].sub,
                                <<env.refresh_token_lifetime>>, now, env)
  IN /\ procs[p].op = "login"
     /\ procs[p].pc = "minted"
     /\ refresh_tokens' = c.store
     /\ procs' = [procs EXCEPT ![p].ret = IF c.ok THEN c.token ELSE None,
                               ![p].raised = ~c.ok,
                               ![p].pc = "persisted"]
     /\ UNCHANGED <<users, now, env, last, user_data, tokens, removed, aux>>

\* The middleware returns the response, with the cookie if a token was made
LoginRespond(p) ==
  /\ procs[p].op = "login"
  /\ procs[p].pc = "persisted"
  /\ procs' = [procs EXCEPT ![p].cookie = procs[p].ret, ![p].pc = "done"]
  /\ UNCHANGED <<users, refresh_tokens, now, env, last, user_data, tokens, removed, aux>>

\* validate_refresh_token: the select, and the test of expires_at
ValidateLookup(p) ==
  LET row == SelectRow(refresh_tokens, procs[p].arg)
  IN /\ procs[p].op = "validate"
     /\ procs[p].pc = "start"
     /\ procs' = [procs EXCEPT
                    ![p].found = row,
                    ![p].ret = IF row # NoRow /\ row.expires_at > now
                               THEN row.user_id ELSE None,
                    ![p].pc = IF row # NoRow /\ row.expires_at <= now
                              THEN "expired" ELSE "done"]
     /\ UNCHANGED <<users, refresh_tokens, now, env, last, user_data, tokens, removed, aux>>

\* validate_refresh_token: the delete of the expired row, and the commit
ValidateDelete(p) ==
  LET d == OrmDelete(refresh_tokens, procs[p].arg)
  IN /\ procs[p].op = "validate"
     /\ procs[p].pc = "expired"
     /\ procs[p].arg \notin Locked(p)
     /\ refresh_tokens' = d.store
     /\ removed' = removed \cup {procs[p].arg}
     /\ procs' = [procs EXCEPT ![p].raised = d.raised, ![p].pc = "done"]
     /\ UNCHANGED <<users, now, env, last, user_data, tokens, aux>>

\* revoke_refresh_token: the select
RevokeLookup(p) ==
  LET row == SelectRow(refresh_tokens, procs[p].arg)
  IN /\ procs[p].op = "revoke"
     /\ procs[p].pc = "start"
     /\ procs' = [procs EXCEPT
                    ![p].found = row,
                    ![p].ret = IF row = NoRow THEN "False" ELSE None,
                    ![p].pc = IF row = NoRow THEN "done" ELSE "found"]
     /\ UNCHANGED <<users, refresh_tokens, now, env, last, user_data, tokens, removed, aux>>

\* revoke_refresh_token: the delete, and the commit
RevokeDelete(p) ==
  LET d == OrmDelete(refresh_tokens, procs[p].arg)
  IN /\ procs[p].op = "revoke"
     /\ procs[p].pc = "found"
     /\ procs[p].arg \notin Locked(p)
     /\ refresh_tokens' = d.store
     /\ removed' = removed \cup {procs[p].arg}
     /\ procs' = [procs EXCEPT ![p].raised = d.raised,
                               ![p].ret = IF d.raised THEN None ELSE "True",
                               ![p].pc = "done"]
     /\ UNCHANGED <<users, now, env, last, user_data, tokens, aux>>

\* revoke_all_user_refresh_tokens: session.execute of the bulk DELETE,
\* which matches the user's rows and holds them until the commit
RevokeAllExecute(p) ==
  LET rows == {t \in DOMAIN refresh_tokens : refresh_tokens[t].user_id = procs[p].arg}
  IN /\ procs[p].op = "revoke_all"
     /\ procs[p].pc = "start"
     /\ rows \cap Locked(p) = {}
     /\ procs' = [procs EXCEPT ![p].pending = rows, ![p].pc = "executed"]
     /\ UNCHANGED <<users, refresh_tokens, now, env, last, user_data, tokens, removed, aux>>

\* revoke_all_user_refresh_tokens: session.commit
RevokeAllCommit(p) ==
  /\ procs[p].op = "revoke_all"
  /\ procs[p].pc = "executed"
  /\ refresh_tokens' = CommitDelete(refresh_tokens, procs[p].pending)
  /\ removed' = removed \cup procs[p].pending
  /\ procs' = [procs EXCEPT ![p].pc = "done"]
  /\ UNCHANGED <<users, now, env, last, user_data, tokens, aux>>

\* The response has been sent; the worker takes the next request
Finish(p) ==
  /\ procs[p].pc = "done"
  /\ procs' = [procs EXCEPT ![p] = IdleProc]
  /\ UNCHANGED <<users, refresh_tokens, now, env, last, user_data, tokens, removed, aux>>

NextConcurrent ==
  \/ Tick
  \/ \E p \in ProcIds, q \in Requests : StartRequest(p, q[1], q[2])
  \/ \E p \in ProcIds : LoginMint(p)
  \/ \E p \in ProcIds, token_str \in TokenStrings : LoginPersist(p, token_str)
  \/ \E p \in ProcIds : LoginRespond(p)
  \/ \E p \in ProcIds : ValidateLookup(p)
  \/ \E p \in ProcIds : ValidateDelete(p)
  \/ \E p \in ProcIds : RevokeLookup(p)
  \/ \E p \in ProcIds : RevokeDelete(p)
  \/ \E p \in ProcIds : RevokeAllExecute(p)
  \/ \E p \in ProcIds : RevokeAllCommit(p)
  \/ \E p \in ProcIds : Finish(p)

SpecConcurrent == InitConcurrent /\ [][NextConcurrent]_vars

(***************************************************************************)
(* core/middleware.py: the middleware stack, and a request passing it      *)
(***************************************************************************)
\* Starlette.add_middleware: self.user_middleware.insert(0, middleware)
add_middleware(user_middleware, middleware) == <<middleware>> \o user_middleware

\* The middlewares in the order setup_all_middleware adds them
AddedMiddleware == <<"cors", "slowapi", "path_rate_limit", "csrf", "login">>

RECURSIVE AddAll(_, _)
\* The calls of add_middleware, one after the other
AddAll(user_middleware, added) ==
  IF Len(added) = 0 THEN user_middleware
  ELSE AddAll(add_middleware(user_middleware, Head(added)), Tail(added))

\* setup_all_middleware(app): app.user_middleware afterwards
setup_all_middleware == AddAll(<<>>, AddedMiddleware)

RECURSIVE build_middleware_stack(_, _)
\* Starlette.build_middleware_stack: app = router; for cls in
\* reversed(user_middleware): app = cls(app). An app is the sequence of
\* its layers, the outermost first.
build_middleware_stack(app, user_middleware) ==
  IF Len(user_middleware) = 0 THEN app
  ELSE build_middleware_stack(<<user_middleware[Len(user_middleware)]>> \o app,
                              SubSeq(user_middleware, 1, Len(user_middleware) - 1))

\* The application: the router inside the middlewares
App == build_middleware_stack(<<"router">>, setup_all_middleware)

\* A request to the application. csrf: the request carries the CSRF cookie
\* and the matching x-csrftoken header.
Request(path, method, credentials, forwarded_for, client_host, csrf, token_str) ==
  [path |-> path, method |-> method, credentials |-> credentials,
   forwarded_for |-> forwarded_for, client_host |-> client_host,
   csrf |-> csrf, token_str |-> token_str]

\* The routes behind the middlewares: the login route, forgot-password of
\* fastapi-users (202 whatever the email), the page route (GET only).
RouteHandler(req) ==
  CASE req.path = LoginPath /\ req.method = "POST" ->
         LoginHandler(users, req.credentials)
    [] req.path = ForgotPasswordPath /\ req.method = "POST" ->
         Response(202, "json", "", None, None, {}, -1)
    [] req.path = PagePath /\ req.method = "GET" ->
         Response(302, "empty", "", None, None, {}, -1)
    [] OTHER -> ErrorResponse(405, "Method Not Allowed")

\* create_csrf_exempt_patterns: ^/api/.*, ^/admin.* (the patterns the
\* paths of the model can match)
CsrfExempt(path) == StartsWith(path, "/api/") \/ StartsWith(path, "/admin")

\* CSRFMiddleware refuses an unsafe method on a URL that is not exempt
\* when the token of the header does not match the cookie.
CsrfRefuses(req) ==
  /\ req.method \notin {"GET", "HEAD", "OPTIONS", "TRACE"}
  /\ ~CsrfExempt(req.path)
  /\ ~req.csrf

\* The cookie CSRFMiddleware sets on the response to a request that came
\* without one
CsrfCookie ==
  [key |-> "csrftoken", value |-> "csrf", max_age |-> 0, path |-> "/",
   httponly |-> FALSE]

\* What a layer returns to the layer above: the response, the layers
\* entered and left below and at it, in order, the limiter's storage and
\* the refresh_tokens table, the lifetime the login middleware used, and
\* the response of the route (NoResponse if the route was not run).
Outcome(response, layers, storage, store, lifetime, route) ==
  [response |-> response, trace |-> layers, path_storage |-> storage,
   store |-> store, lifetime |-> lifetime, route |-> route]

\* The layer name has called the layer below, which returned inner, and
\* returns response with the table store
Through(name, inner, response, store, lifetime) ==
  Outcome(response,
          << <<name, "request">> >> \o inner.trace \o << <<name, "response">> >>,
          inner.path_storage, store, lifetime, inner.route)

\* The layer name answers without calling the layer below
Answer(name, response, storage, store) ==
  Outcome(response, << <<name, "request">>, <<name, "response">> >>,
          storage, store, 0, NoResponse)

\* _add_refresh_token_on_login around the response of the layers below
LoginLayer(req, inner) ==
  LET WithLogin(r) == Through("login", inner, r.response, r.store, r.lifetime)
  IN WithLogin(add_refresh_token_on_login(req.path, req.method, <<>>,
                                          inner.response, req.token_str,
                                          inner.store, now, env))

\* CSRFMiddleware around the response of the layers below: it sets its
\* cookie on the response to a request that came without one.
CsrfLayer(req, inner) ==
  Through("csrf", inner,
          IF req.csrf THEN inner.response
          ELSE [inner.response EXCEPT !.set_cookie = @ \cup {CsrfCookie}],
          inner.store, inner.lifetime)

RECURSIVE call_next(_, _, _, _, _)
\* call_next(request) of the layer above layer i of app: the layer runs
\* and, unless it answers itself, calls the layer below. storage and
\* store are the limiter's storage and the refresh_tokens table as the
\* layers above left them.
call_next(app, i, req, storage, store) ==
  LET name == app[i]
      k == MatchingLimit(req.path)
      Pass(inner) ==
        Through(name, inner, inner.response, inner.store, inner.lifetime)
      Checked(check) ==
        IF check.ok
        THEN Pass(call_next(app, i + 1, req, check.storage, store))
        ELSE Answer(name, ErrorResponse(429, "RATE_LIMIT_EXCEEDED"),
                    check.storage, store)
  IN CASE name = "router" ->
            Outcome(RouteHandler(req), << <<name, "request">>, <<name, "response">> >>,
                    storage, store, 0, RouteHandler(req))
       [] name = "login" ->
            LoginLayer(req, call_next(app, i + 1, req, storage, store))
       [] name = "csrf" ->
            IF CsrfRefuses(req)
            THEN Answer(name, ErrorResponse(403, "CSRF token verification failed"),
                        storage, store)
            ELSE CsrfLayer(req, call_next(app, i + 1, req, storage, store))
       [] name = "path_rate_limit" /\ k # 0 ->
            Checked(check_path_rate_limit(storage, req.forwarded_for,
                                          req.client_host, path_rate_limits[k][2],
                                          path_rate_limits[k][1], now))
       [] OTHER -> Pass(call_next(app, i + 1, req, storage, store))

\* Where requests come from: the X-Forwarded-For header and the remote
\* address
Origins ==
  { <<<<>>, "10.0.0.1">>, <<<<>>, "10.0.0.2">>,
    <<<<"10.0.0.2", "10.0.0.1">>, "10.0.0.1">> }

\* The requests clients send: logins, forgot-password requests, and GET and
\* POST to a page.
StackRequests ==
  { Request(LoginPath, "POST", credentials, o[1], o[2], FALSE, token_str) :
      credentials \in {"u1", None}, o \in Origins, token_str \in {"t1"} }
  \cup { Request(ForgotPasswordPath, "POST", None, o[1], o[2], FALSE, None) :
           o \in Origins }
  \cup { Request(PagePath, method, None, <<>>, "10.0.0.1", csrf, None) :
           method \in {"GET", "POST"}, csrf \in BOOLEAN }

\* A request served by the application
StackRequest(req) ==
  \E r \in {call_next(App, 1, req, path_storage, refresh_tokens)} :
     /\ path_storage' = r.path_storage
     /\ refresh_tokens' = r.store
     /\ trace' = r.trace
     /\ last' = Last("request", req.path, req.method, None,
                     get_client_ip(req.forwarded_for, req.client_host), <<>>,
                     r.route, r.response, refresh_tokens, None, FALSE,
                     IF r.lifetime # 0 THEN req.token_str ELSE None,
                     r.lifetime, FALSE)
     /\ UNCHANGED <<users, now, env, user_data, tokens, procs, removed, mailbox, admin>>

\* reset_rate_limit_storage(), as the tests call it between cases
ResetRateLimitStorage ==
  /\ path_storage' = reset_rate_limit_storage
  /\ last' = Last("reset", "", "", None, None, <<>>, NoResponse, NoResponse,
                  refresh_tokens, None, FALSE, None, 0, FALSE)
  /\ UNCHANGED <<users, refresh_tokens, now, env, user_data, tokens, procs,
                 removed, trace, mailbox, admin>>

\* One verified user; the limiter's storage is empty
InitStack ==
  /\ users = [u \in {"u1"} |-> [is_active |-> TRUE, is_verified |-> TRUE]]
  /\ refresh_tokens = EmptyTable
  /\ now = 0
  /\ env \in Envs
  /\ last = Idle
  /\ user_data = [u \in {"u1"} |-> ""]
  /\ tokens = EmptyTable
  /\ procs = NoProcs
  /\ removed = {}
  /\ AuxInit

NextStack ==
  \/ Tick
  \/ \E req \in StackRequests : StackRequest(req)
  \/ ResetRateLimitStorage

SpecStack == InitStack /\ [][NextStack]_vars

(***************************************************************************)
(* Registration and verification, statement by statement                   *)
(***************************************************************************)
\* on_after_register up to the mail: request_verify(user) makes the
\* verification token of an active, unverified user and
\* on_after_request_verify mails it (UserInactive and UserAlreadyVerified
\* are raised otherwise, and nothing is mailed).
on_after_register(usrs, u) ==
  [mailed |-> usrs[u].is_active /\ ~usrs[u].is_verified, users |-> usrs]

\* POST /api/auth/register: UserManager.create commits the new user,
\* active and unverified
RegisterCreate(p, u) ==
  /\ procs[p].pc = "idle"
  /\ u \notin DOMAIN users
  /\ users' = Put(users, u, [is_active |-> TRUE, is_verified |-> FALSE])
  /\ procs' = [procs EXCEPT ![p] =
                 Proc("register", u, "created", NoRow, {}, None, None, None, FALSE)]
  /\ last' = Idle
  /\ UNCHANGED <<refresh_tokens, now, env, user_data, tokens, removed, aux>>

\* on_after_register: await self.request_verify(user, request)
RegisterRequestVerify(p) ==
  LET r == on_after_register(users, procs[p].arg)
  IN /\ procs[p].op = "register"
     /\ procs[p].pc = "created"
     /\ users' = r.users
     /\ mailbox' = IF r.mailed THEN mailbox \cup {procs[p].arg} ELSE mailbox
     /\ procs' = [procs EXCEPT ![p].raised = ~r.mailed,
                               ![p].pc = IF r.mailed THEN "requested" ELSE "done"]
     /\ last' = Idle
     /\ UNCHANGED <<refresh_tokens, now, env, user_data, tokens, removed,
                    path_storage, trace, admin>>

\* on_after_register: user.is_active = False; session.add(user);
\* session.commit(). The UPDATE writes the attribute that was changed.
RegisterDeactivate(p) ==
  /\ procs[p].op = "register"
  /\ procs[p].pc = "requested"
  /\ users' = [users EXCEPT ![procs[p].arg].is_active = FALSE]
  /\ procs' = [procs EXCEPT ![p].pc = "done"]
  /\ last' = Idle
  /\ UNCHANGED <<refresh_tokens, now, env, user_data, tokens, removed, aux>>

\* POST /api/auth/verify with the token of the mail
VerifyWithToken(u) ==
  /\ u \in mailbox
  /\ Verify(u)

NextRegistration ==
  \/ \E p \in ProcIds, u \in UserIds : RegisterCreate(p, u)
  \/ \E p \in ProcIds : RegisterRequestVerify(p)
  \/ \E p \in ProcIds : RegisterDeactivate(p)
  \/ \E p \in ProcIds : Finish(p)
  \/ \E u \in UserIds : VerifyWithToken(u)
  \/ \E credentials \in UserIds, token_str \in TokenStrings :
        Login(credentials, <<>>, token_str)

SpecRegistration == Init /\ [][NextRegistration]_vars

(***************************************************************************)
(* Passwords: change-password, and the admin site's authentication         *)
(***************************************************************************)
Passwords == {"OldPass123!", "NewPass456!", "WrongPassword!"}

\* PasswordHelper.hash(password)
PasswordHash(password) == <<"hash", password>>

\* PasswordHelper.verify_and_update(plain_password, hashed_password): the
\* first component of the result
verify_and_update(plain_password, hashed) == hashed = PasswordHash(plain_password)

\* UserManager.authenticate(credentials) of the login route: the user of
\* that email when the password verifies, None otherwise
authenticate(usrs, hashes, username, password) ==
  IF username \in DOMAIN usrs /\ verify_and_update(password, hashes[username])
  THEN username
  ELSE None

MessageResponse(message) ==
  Response(200, "json", message, None, None, {}, -1)

\* change_password storing the new hash before it has verified the
\* current password
change_password_unverified(usrs, hashes, caller, current_password, new_password) ==
  IF ~Authenticated(usrs, caller)
  THEN [response |-> Unauthorized, hashed_password |-> hashes]
  ELSE [response |-> IF verify_and_update(current_password, hashes[caller])
                     THEN MessageResponse("Password changed successfully")
                     ELSE ErrorResponse(400, "CHANGE_PASSWORD_INVALID_CURRENT"),
        hashed_password |-> [hashes EXCEPT ![caller] = PasswordHash(new_password)]]

\* POST /api/auth/change-password; user = Depends(current_active_user)
change_password(usrs, hashes, caller, current_password, new_password) ==
  IF ~Authenticated(usrs, caller)
  THEN [response |-> Unauthorized, hashed_password |-> hashes]
  ELSE IF ~verify_and_update(current_password, hashes[caller])
  THEN [response |-> ErrorResponse(400, "CHANGE_PASSWORD_INVALID_CURRENT"),
        hashed_password |-> hashes]
  ELSE [response |-> MessageResponse("Password changed successfully"),
        hashed_password |-> [hashes EXCEPT ![caller] = PasswordHash(new_password)]]

\* request.session.get("admin_user_id")
SessionGet(sess, key) == IF key \in DOMAIN sess THEN sess[key] ELSE None

\* AdminAuth.login(request)
AdminAuth_login(usrs, hashes, super, sess, email, password) ==
  IF email = "" \/ password = ""
  THEN [ret |-> FALSE, session |-> sess]
  ELSE IF email \notin DOMAIN usrs
  THEN [ret |-> FALSE, session |-> sess]
  ELSE IF ~verify_and_update(password, hashes[email])
  THEN [ret |-> FALSE, session |-> sess]
  ELSE IF ~super[email]
  THEN [ret |-> FALSE, session |-> sess]
  ELSE IF ~usrs[email].is_active
  THEN [ret |-> FALSE, session |-> sess]
  ELSE [ret |-> TRUE, session |-> Put(sess, "admin_user_id", email)]

RedirectResponse(location) ==
  Response(302, "empty", location, None, None, {}, -1)

\* AdminAuth.authenticate trusting the session without reading the user
AdminAuth_authenticate_session_only(usrs, super, sess) ==
  LET admin_user_id == SessionGet(sess, "admin_user_id")
  IN IF admin_user_id = None
     THEN [ret |-> FALSE, response |-> RedirectResponse("admin:login"), session |-> sess]
     ELSE [ret |-> TRUE, response |-> NoResponse, session |-> sess]

\* AdminAuth.authenticate(request): True, or the redirect to the login page
AdminAuth_authenticate(usrs, super, sess) ==
  LET admin_user_id == SessionGet(sess, "admin_user_id")
  IN IF admin_user_id = None
     THEN [ret |-> FALSE, response |-> RedirectResponse("admin:login"), session |-> sess]
     ELSE IF \/ admin_user_id \notin DOMAIN usrs
             \/ ~super[admin_user_id]
             \/ ~usrs[admin_user_id].is_active
     THEN [ret |-> FALSE, response |-> RedirectResponse("admin:login"),
           session |-> EmptyTable]
     ELSE [ret |-> TRUE, response |-> NoResponse, session |-> sess]

\* POST /api/auth/login with a username and a password
PasswordLogin(username, password, token_str) ==
  Login(authenticate(users, hashed_password, username, password), <<>>, token_str)

ChangePassword(caller, current_password, new_password) ==
  \E r \in {change_password(users, hashed_password, caller,
                            current_password, new_password)} :
     /\ hashed_password' = r.hashed_password
     /\ last' = Last("change_password", "/api/auth/change-password", "POST", None, caller,
                     <<current_password, new_password>>, r.response, r.response,
                     refresh_tokens, None, FALSE, None, 0, FALSE)
     /\ UNCHANGED <<users, refresh_tokens, now, env, user_data, tokens, procs,
                    removed, path_storage, trace, mailbox, is_superuser, session>>

\* POST /admin/login
AdminLogin(email, password) ==
  \E r \in {AdminAuth_login(users, hashed_password, is_superuser, session,
                            email, password)} :
     /\ session' = r.session
     /\ last' = Last("admin_login", "/admin", "POST", None, email, <<password>>,
                     NoResponse, NoResponse, refresh_tokens, None, r.ret,
                     None, 0, FALSE)
     /\ UNCHANGED <<users, refresh_tokens, now, env, user_data, tokens, procs,
                    removed, path_storage, trace, mailbox, hashed_password,
                    is_superuser>>

\* Any later request to the admin site: sqladmin calls authenticate first
AdminRequest ==
  \E r \in {AdminAuth_authenticate(users, is_superuser, session)} :
     /\ session' = r.session
     /\ last' = Last("admin_request", "/admin", "GET", None,
                     SessionGet(session, "admin_user_id"), <<>>,
                     NoResponse, r.response, refresh_tokens, None, r.ret,
                     None, 0, FALSE)
     /\ UNCHANGED <<users, refresh_tokens, now, env, user_data, tokens, procs,
                    removed, path_storage, trace, mailbox, hashed_password,
                    is_superuser>>

\* AdminAuth.logout(request)
AdminLogout ==
  /\ session # EmptyTable
  /\ session' = EmptyTable
  /\ last' = Idle
  /\ UNCHANGED <<users, refresh_tokens, now, env, user_data, tokens, procs,
                 removed, path_storage, trace, mailbox, hashed_password,
                 is_superuser>>

\* An administrator grants or withdraws is_superuser
SetSuperuser(u, value) ==
  /\ u \in DOMAIN users
  /\ is_superuser[u] # value
  /\ is_superuser' = [is_superuser EXCEPT ![u] = value]
  /\ last' = Idle
  /\ UNCHANGED <<users, refresh_tokens, now, env, user_data, tokens, procs,
                 removed, path_storage, trace, mailbox, hashed_password, session>>

InitPassword ==
  /\ users = [u \in UserIds |-> [is_active |-> TRUE, is_verified |-> TRUE]]
  /\ refresh_tokens = EmptyTable
  /\ now = 0
  /\ env \in Envs
  /\ last = Idle
  /\ user_data = [u \in UserIds |-> ""]
  /\ tokens = EmptyTable
  /\ procs = NoProcs
  /\ removed = {}
  /\ path_storage = EmptyTable
  /\ trace = <<>>
  /\ mailbox = {}
  /\ hashed_password = [u \in UserIds |-> PasswordHash("OldPass123!")]
  /\ is_superuser = [u \in UserIds |-> u = "u1"]
  /\ session = EmptyTable

NextPassword ==
  \/ \E username \in UserIds, password \in Passwords :
        PasswordLogin(username, password, "t1")
  \/ \E caller \in UserIds \cup {None}, current_password \in Passwords,
        new_password \in {"OldPass123!", "NewPass456!"} :
        ChangePassword(caller, current_password, new_password)
  \/ \E email \in UserIds \cup {""}, password \in {"OldPass123!", "NewPass456!", ""} :
        AdminLogin(email, password)
  \/ AdminRequest
  \/ AdminLogout
  \/ \E u \in UserIds, value \in BOOLEAN : SetSuperuser(u, value)
  \/ \E u \in UserIds, active \in BOOLEAN : UpdateUser(u, active)
  \/ \E u \in UserIds : DeleteUser(u)

SpecPassword == InitPassword /\ [][NextPassword]_vars

(***************************************************************************)
(* UserData get-or-create, statement by statement                          *)
(***************************************************************************)
UserDataOps == {"get_user_data", "update_user_data", "verify"}

\* session.add(UserData(user_id=..., text_value=...)); session.commit():
\* user_id is the primary key of user_data, so the INSERT of a second row
\* for the user raises IntegrityError
InsertUserData(udata, user_id, text_value) ==
  IF user_id \in DOMAIN udata
  THEN [raised |-> TRUE, user_data |-> udata]
  ELSE [raised |-> FALSE, user_data |-> Put(udata, user_id, text_value)]

\* UserAdmin's edit form: an administrator marks the user active and
\* verified (no UserData row is created)
AdminEditUser(u) ==
  /\ u \in DOMAIN users
  /\ ~users[u].is_verified
  /\ users' = [users EXCEPT ![u] = [is_active |-> TRUE, is_verified |-> TRUE]]
  /\ last' = Idle
  /\ UNCHANGED <<refresh_tokens, now, env, user_data, tokens, procs, removed, aux>>

\* A request arrives: GET or PUT /api/user-data of a verified user
\* (current_verified_user), or POST /api/auth/verify with a valid token of
\* an unverified user
UserDataStart(p, op, u) ==
  /\ procs[p].pc = "idle"
  /\ IF op = "verify"
     THEN u \in DOMAIN users /\ ~users[u].is_verified
     ELSE Verified(users, u)
  /\ procs' = [procs EXCEPT ![p] =
                 Proc(op, u, "start", NoRow, {}, None, None, None, FALSE)]
  /\ UNCHANGED <<users, refresh_tokens, now, env, last, user_data, tokens, removed, aux>>

\* UserManager.verify: the user is updated to is_verified = True and
\* committed before on_after_verify is called
VerifyUpdate(p) ==
  /\ procs[p].op = "verify"
  /\ procs[p].pc = "start"
  /\ users' = [users EXCEPT ![procs[p].arg].is_verified = TRUE]
  /\ procs' = [procs EXCEPT ![p].pc = "verified"]
  /\ UNCHANGED <<refresh_tokens, now, env, last, user_data, tokens, removed, aux>>

\* select(UserData).where(UserData.user_id == user.id); scalar_one_or_none()
UserDataSelect(p) ==
  /\ procs[p].op \in UserDataOps
  /\ procs[p].pc = IF procs[p].op = "verify" THEN "verified" ELSE "start"
  /\ procs' = [procs EXCEPT
                 ![p].found = IF procs[p].arg \in DOMAIN user_data
                              THEN [user_id |-> procs[p].arg, expires_at |-> 0]
                              ELSE NoRow,
                 ![p].pc = "selected"]
  /\ UNCHANGED <<users, refresh_tokens, now, env, last, user_data, tokens, removed, aux>>

\* The rest of the handler: the row is created when the select found
\* none (update_user_data assigns text_value otherwise), and the session
\* is committed; on_after_verify commits is_active = True with it. A
\* failed commit changes nothing.
UserDataCommit(p, text_value) ==
  LET u == procs[p].arg
      op == procs[p].op
      value == IF op = "update_user_data" THEN text_value ELSE ""
  IN \E r \in {IF procs[p].found = NoRow
               THEN InsertUserData(user_data, u, value)
               ELSE [raised |-> FALSE,
                     user_data |-> IF op = "update_user_data" /\ u \in DOMAIN user_data
                                   THEN [user_data EXCEPT ![u] = value]
                                   ELSE user_data]} :
        /\ procs[p].op \in UserDataOps
        /\ procs[p].pc = "selected"
        /\ op # "update_user_data" => text_value = ""
        /\ user_data' = r.user_data
        /\ users' = IF op = "verify" /\ ~r.raised
                    THEN [users EXCEPT ![u].is_active = TRUE]
                    ELSE users
        /\ procs' = [procs EXCEPT ![p].raised = r.raised,
                                  ![p].ret = IF r.raised THEN None ELSE u,
                                  ![p].pc = "done"]
        /\ UNCHANGED <<refresh_tokens, now, env, last, tokens, removed, aux>>

NextUserData ==
  \/ \E u \in UserIds : Register(u)
  \/ \E u \in UserIds : AdminEditUser(u)
  \/ \E p \in ProcIds, op \in UserDataOps, u \in UserIds : UserDataStart(p, op, u)
  \/ \E p \in ProcIds : VerifyUpdate(p)
  \/ \E p \in ProcIds : UserDataSelect(p)
  \/ \E p \in ProcIds, text_value \in TextValues : UserDataCommit(p, text_value)
  \/ \E p \in ProcIds : Finish(p)

SpecUserData == Init /\ [][NextUserData]_vars

(***************************************************************************)
(* Properties                                                              *)
(***************************************************************************)
\* The request just served was made by a caller current_active_user accepts.
CallerAuthenticated == Authenticated(users, last.caller)

\* The request just served carried a non-empty refresh cookie.
CookiePresent == last.cookie # None /\ last.cookie # ""

\* The table s is the table p without the rows keyed by K.
IsWithout(s, p, K) ==
  /\ DOMAIN s = DOMAIN p \ K
  /\ \A t \in DOMAIN s : s[t] = p[t]

\* C1: a refresh request whose cookie names a stored token with
\* expires_at <= now (equality included) gets None from
\* validate_refresh_token, is answered 401 REFRESH_TOKEN_INVALID, and the
\* row is gone from refresh_tokens afterwards.
C1_ExpiredTokenRejectedAndDeleted ==
  ( /\ last.op = "refresh"
    /\ last.cookie \in DOMAIN last.pre
    /\ last.pre[last.cookie].expires_at <= now )
  => /\ last.ret_user = None
     /\ last.cookie \notin DOMAIN refresh_tokens
     /\ last.response.status = 401
     /\ last.response.detail = "REFRESH_TOKEN_INVALID"

\* C1 witness: a refresh with a token that expires exactly now.
C1_Witness ==
  /\ last.op = "refresh"
  /\ last.cookie \in DOMAIN last.pre
  /\ last.pre[last.cookie].expires_at = now

\* C2: right after create_refresh_token(u, L) returned a token (a login
\* that stored one), validate_refresh_token on that token returns u, now
\* and at every instant less than L seconds later, and leaves the table
\* as it is.
C2_RoundTrip ==
  ( /\ last.op = "login"
    /\ last.token # None )
  => /\ last.lifetime > 0
     /\ \A d \in 0..(last.lifetime - 1) :
          LET v == validate_refresh_token(refresh_tokens, last.token, now + d)
          IN /\ v.user_id = last.downstream.sub
             /\ v.store = refresh_tokens

\* C2 witness: a login stored a remember-me token, whose round trip spans
\* more than one instant.
C2_Witness ==
  /\ last.op = "login"
  /\ last.token # None
  /\ last.lifetime > 1
  /\ last.downstream.sub \in UserIds

\* C3: revoke_refresh_token(t), as logout calls it, removes a stored t
\* and returns true; for a t that is not stored it returns false and
\* leaves the table unchanged; so does a second call right after a first
\* one that removed t. None of the calls raises (the logout answers 200).
C3_IdempotentRevoke ==
  ( /\ last.op = "logout"
    /\ CallerAuthenticated
    /\ CookiePresent )
  => /\ last.response.status = 200
     /\ last.cookie \in DOMAIN last.pre
          => last.ret_bool /\ IsWithout(refresh_tokens, last.pre, {last.cookie})
     /\ last.cookie \notin DOMAIN last.pre
          => ~last.ret_bool /\ refresh_tokens = last.pre
     /\ last.again => ~last.ret_bool /\ refresh_tokens = last.pre

\* C3 witness: the second of two logouts in a row with the same token,
\* the first of which removed it.
C3_Witness ==
  /\ last.op = "logout"
  /\ CallerAuthenticated
  /\ last.cookie \in TokenStrings
  /\ last.again
  /\ ~last.ret_bool

\* C4: logout-all by user A removes every refresh token whose user_id is
\* A and no other row, leaves the rows of every other user as they were,
\* and reports exactly the number of rows it removed.
C4_BulkRevokeIsolation ==
  ( /\ last.op = "logout_all"
    /\ CallerAuthenticated )
  => /\ last.response.status = 200
     /\ \A t \in DOMAIN last.pre :
          IF last.pre[t].user_id = last.caller
          THEN t \notin DOMAIN refresh_tokens
          ELSE t \in DOMAIN refresh_tokens /\ refresh_tokens[t] = last.pre[t]
     /\ DOMAIN refresh_tokens \subseteq DOMAIN last.pre
     /\ last.response.revoked =
          Cardinality(DOMAIN last.pre) - Cardinality(DOMAIN refresh_tokens)

\* C4 witness: a logout-all that removed a token of the caller while a
\* token of another user stayed.
C4_Witness ==
  /\ last.op = "logout_all"
  /\ CallerAuthenticated
  /\ last.response.revoked = 1
  /\ \E t \in DOMAIN refresh_tokens : refresh_tokens[t].user_id # last.caller

\* The spellings of "true" in any mix of upper and lower case
TrueSpellings ==
  { <<a, b, c, d>> : a \in {"t", "T"}, b \in {"r", "R"},
                     c \in {"u", "U"}, d \in {"e", "E"} }

\* The lifetime the claim prescribes for a login form
ClaimedLifetime(form) ==
  IF Len(form) > 0 /\ form[1] \in TrueSpellings
  THEN env.remember_me_refresh_token_lifetime
  ELSE env.refresh_token_lifetime

\* The refresh cookies a response sets for the token string t
RefreshCookies(response, t) ==
  {c \in response.set_cookie : c.key = refresh_token_cookie_name /\ c.value = t}

\* C5: after a successful login that created a refresh token, the stored
\* expires_at is now + L and the cookie's Max-Age is L, where L is the
\* remember-me lifetime if the form field remember_me is "true" in any
\* case, and the default refresh lifetime if it is "false", absent or
\* anything else.
C5_RememberMeLifetime ==
  ( /\ last.op = "login"
    /\ last.response.status = 200
    /\ last.token # None )
  => /\ last.token \in DOMAIN refresh_tokens
     /\ refresh_tokens[last.token].expires_at = now + ClaimedLifetime(last.form)
     /\ RefreshCookies(last.response, last.token) # {}
     /\ \A c \in RefreshCookies(last.response, last.token) :
          c.max_age = ClaimedLifetime(last.form)

\* C5 witness: a successful login whose form says remember_me=TrUE.
C5_Witness ==
  /\ last.op = "login"
  /\ last.response.status = 200
  /\ last.token # None
  /\ last.form = <<<<"T", "r", "U", "E">>>>
  /\ refresh_tokens[last.token].expires_at = now + env.remember_me_refresh_token_lifetime

\* C6: when the login route answered 200, the client receives either 200
\* with the access token and a refresh cookie, or a 5xx response; never
\* a 200 that lacks the refresh cookie.
C6_LoginAllOrNothing ==
  ( /\ last.op = "login"
    /\ last.downstream.status = 200 )
  => \/ /\ last.response.status = 200
        /\ last.response.access_token = "jwt"
        /\ \E c \in last.response.set_cookie :
             c.key = refresh_token_cookie_name /\ c.value \in TokenStrings
     \/ last.response.status >= 500

\* C7: the refresh endpoint answers, in this order of precedence: 401
\* REFRESH_TOKEN_MISSING for an absent or empty cookie, the table being
\* untouched; 401 REFRESH_TOKEN_INVALID for an unknown or expired token;
\* 401 USER_INACTIVE for a valid token whose user is missing or inactive;
\* otherwise 200 with an access token for the user the token belongs to.
C7_RefreshPrecedence ==
  last.op = "refresh" =>
    IF ~CookiePresent
    THEN /\ last.response.status = 401
         /\ last.response.detail = "REFRESH_TOKEN_MISSING"
         /\ refresh_tokens = last.pre
    ELSE IF \/ last.cookie \notin DOMAIN last.pre
            \/ last.pre[last.cookie].expires_at <= now
         THEN /\ last.response.status = 401
              /\ last.response.detail = "REFRESH_TOKEN_INVALID"
         ELSE IF \/ last.pre[last.cookie].user_id \notin DOMAIN users
                 \/ ~users[last.pre[last.cookie].user_id].is_active
              THEN /\ last.response.status = 401
                   /\ last.response.detail = "USER_INACTIVE"
              ELSE /\ last.response.status = 200
                   /\ last.response.access_token = "jwt"
                   /\ last.response.sub = last.pre[last.cookie].user_id

\* C7 witness: a refresh with a valid token of a deactivated user.
C7_Witness ==
  /\ last.op = "refresh"
  /\ last.cookie \in DOMAIN last.pre
  /\ last.pre[last.cookie].expires_at > now
  /\ last.pre[last.cookie].user_id \in DOMAIN users
  /\ ~users[last.pre[last.cookie].user_id].is_active
  /\ last.response.detail = "USER_INACTIVE"

\* C8: a successful refresh leaves refresh_tokens unchanged and sets no
\* cookie, and the token it used is still accepted: the same token can be
\* exchanged again.
C8_NoRotation ==
  ( /\ last.op = "refresh"
    /\ last.response.status = 200 )
  => /\ refresh_tokens = last.pre
     /\ last.response.set_cookie = {}
     /\ refresh_access_token(users, refresh_tokens, last.cookie, now).response
          = last.response

\* C8 witness: the second of two successful refreshes in a row with the
\* same token.
C8_Witness ==
  /\ last.op = "refresh"
  /\ last.again
  /\ last.response.status = 200

\* C9: a logout by an authenticated user is answered 200 and clears the
\* refresh cookie at path /api/auth; a stored token named by the cookie is
\* removed, a refresh with it is then answered REFRESH_TOKEN_INVALID, and
\* every other token stays; with no cookie or an unknown token the table
\* is unchanged.
C9_Logout ==
  ( /\ last.op = "logout"
    /\ CallerAuthenticated )
  => /\ last.response.status = 200
     /\ \E c \in last.response.set_cookie :
          /\ c.key = refresh_token_cookie_name
          /\ c.path = "/api/auth"
          /\ c.value = ""
          /\ c.max_age = 0
     /\ IF last.cookie \in DOMAIN last.pre
        THEN /\ IsWithout(refresh_tokens, last.pre, {last.cookie})
             /\ refresh_access_token(users, refresh_tokens, last.cookie, now)
                  .response.detail = "REFRESH_TOKEN_INVALID"
        ELSE refresh_tokens = last.pre

\* C9 witness: a logout removed the cookie's token and another token
\* stayed in the table.
C9_Witness ==
  /\ last.op = "logout"
  /\ CallerAuthenticated
  /\ last.cookie \in DOMAIN last.pre
  /\ refresh_tokens # EmptyTable

\* C10: for a request that is not a POST to the login path answered 200
\* downstream, the client receives the downstream response unmodified, no
\* refresh token is created and no refresh cookie is set; failed (400) and
\* rate-limited (429) logins are such requests.
C10_PassThrough ==
  ( /\ last.op # "idle"
    /\ ~( /\ last.path = LoginPath
          /\ last.method = "POST"
          /\ last.downstream.status = 200 ) )
  => /\ last.response = last.downstream
     /\ last.token = None
     /\ DOMAIN refresh_tokens \subseteq DOMAIN last.pre
     /\ \A t \in DOMAIN refresh_tokens : refresh_tokens[t] = last.pre[t]
     /\ \A c \in last.response.set_cookie : c.value = ""

\* C10 witness: a login the path limiter answered 429, asking for
\* remember-me.
C10_Witness ==
  /\ last.op = "login"
  /\ last.downstream.status = 429
  /\ last.form = <<STrue>>

\* C16: the refresh token the login middleware creates belongs to the user
\* named by the sub claim of the access token the login route minted in
\* this request, whatever bearer token the client sent along: the row's
\* user_id is the sub of the downstream response, which is also the token
\* the client receives.
C16_SubBinding ==
  ( /\ last.op = "login"
    /\ last.token # None )
  => /\ last.downstream.access_token = "jwt"
     /\ last.downstream.sub \in DOMAIN users
     /\ last.token \in DOMAIN refresh_tokens
     /\ refresh_tokens[last.token].user_id = last.downstream.sub
     /\ last.response.sub = last.downstream.sub
     /\ last.token \notin DOMAIN last.pre

\* C16 witness: a login that created a refresh token while the request
\* carried a bearer token naming another user.
C16_Witness ==
  /\ last.op = "login"
  /\ last.token # None
  /\ last.caller \in UserIds
  /\ last.caller # last.downstream.sub

\* The signed access tokens that are not expired now: what a client may
\* still hold of the tokens issued so far.
LiveAccessTokens ==
  { AccessToken(u, exp, TRUE) : u \in UserIds, exp \in (now + 1)..(MaxTime + 1) }

\* C17: after a logout, a logout-all or a cleanup that removed refresh
\* tokens, every signed access token that has not reached its exp is
\* accepted by current_active_user exactly when its user exists and is
\* active, as it was before the removal.
C17_AccessTokensSurviveRevocation ==
  ( /\ last.op \in {"logout", "logout_all", "cleanup"}
    /\ refresh_tokens # last.pre )
  => \A bearer \in LiveAccessTokens :
       /\ current_active_user(users, refresh_tokens, bearer, now)
            = current_active_user(users, last.pre, bearer, now)
       /\ ( bearer.sub \in DOMAIN users /\ users[bearer.sub].is_active )
            => current_active_user(users, refresh_tokens, bearer, now) = bearer.sub

\* C17 witness: a logout-all removed every refresh token of the caller,
\* whose access token is still accepted.
C17_Witness ==
  /\ last.op = "logout_all"
  /\ CallerAuthenticated
  /\ last.response.revoked > 0
  /\ refresh_tokens = EmptyTable
  /\ current_active_user(users, refresh_tokens,
                         AccessToken(last.caller, now + 1, TRUE), now) = last.caller

\* Every row of refresh_tokens, tokens and user_data names a user of users.
ReferentialIntegrity ==
  /\ \A t \in DOMAIN refresh_tokens : refresh_tokens[t].user_id \in DOMAIN users
  /\ \A t \in DOMAIN tokens : tokens[t].user_id \in DOMAIN users
  /\ DOMAIN user_data \subseteq DOMAIN users

\* A step that deletes users removes exactly their rows from the three
\* tables and changes no other row; a step that deletes nobody removes no
\* UserData row.
DeleteRemovesOwnRowsOnly ==
  LET gone == DOMAIN users \ DOMAIN users'
  IN gone # {} =>
       /\ \A t \in DOMAIN refresh_tokens :
            IF refresh_tokens[t].user_id \in gone
            THEN t \notin DOMAIN refresh_tokens'
            ELSE t \in DOMAIN refresh_tokens' /\ refresh_tokens'[t] = refresh_tokens[t]
       /\ \A t \in DOMAIN tokens :
            IF tokens[t].user_id \in gone
            THEN t \notin DOMAIN tokens'
            ELSE t \in DOMAIN tokens' /\ tokens'[t] = tokens[t]
       /\ \A u \in DOMAIN user_data :
            IF u \in gone
            THEN u \notin DOMAIN user_data'
            ELSE u \in DOMAIN user_data' /\ user_data'[u] = user_data[u]

LifetimeArgs == {<<>>} \cup { <<n>> : n \in 0..(MaxTime + 1) }

\* C18: get_refresh_token_cookie_settings returns httponly = true and
\* path = "/api/auth" for every lifetime argument, with max_age the
\* argument, or the configured default lifetime when the argument is
\* None; and every refresh cookie a password login or a Firebase login
\* sets is HttpOnly and scoped to /api/auth.
C18_CookieSettings ==
  /\ \A lifetime_seconds \in LifetimeArgs :
       LET c == get_refresh_token_cookie_settings(lifetime_seconds, env)
       IN /\ c.httponly = TRUE
          /\ c.path = "/api/auth"
          /\ c.max_age = IF lifetime_seconds = <<>>
                         THEN env.refresh_token_lifetime
                         ELSE lifetime_seconds[1]
  /\ last.op \in {"login", "firebase"} =>
       \A c \in last.response.set_cookie :
         /\ c.key = refresh_token_cookie_name
         /\ c.httponly = TRUE
         /\ c.path = "/api/auth"
         /\ c.max_age = last.lifetime

\* C18 witness: a Firebase login answered 200 with a refresh cookie for a
\* stored token.
C18_Witness ==
  /\ last.op = "firebase"
  /\ last.response.status = 200
  /\ \E c \in last.response.set_cookie : c.value \in DOMAIN refresh_tokens

\* C20: when create_refresh_token is given a token string that is
\* already stored (the login route answered 200 with an access token and
\* the middleware stored nothing), the client is answered with a 5xx
\* error, and the table is as it was: the existing row keeps its owner
\* and its expiry.
C20_DuplicateTokenSurfaced ==
  ( /\ last.op = "login"
    /\ last.downstream.status = 200
    /\ last.downstream.access_token = "jwt"
    /\ last.downstream.sub # None
    /\ last.token = None )
  => /\ last.response.status >= 500
     /\ refresh_tokens = last.pre

\* C19: in every configuration from_env returns, the remember-me lifetime
\* is at least the default refresh lifetime; so the token a remember-me
\* login stores, and the cookie it sets, expire no earlier than those of
\* a default login made at the same instant.
C19_RememberMeAtLeastDefault ==
  /\ env.remember_me_refresh_token_lifetime >= env.refresh_token_lifetime
  /\ ( /\ last.op = "login"
       /\ last.token # None
       /\ ParseRememberMe(last.form) )
     => /\ refresh_tokens[last.token].expires_at >= now + env.refresh_token_lifetime
        /\ \A c \in RefreshCookies(last.response, last.token) :
             c.max_age >= env.refresh_token_lifetime

\* The login request p has committed a refresh token.
LoginCommitted(p) ==
  /\ procs[p].op = "login"
  /\ procs[p].pc \in {"persisted", "done"}
  /\ procs[p].ret # None

\* The token t is stored for user u, and validate_refresh_token returns u
\* for it unless it has expired.
StoredFor(t, u) ==
  /\ t \in DOMAIN refresh_tokens
  /\ refresh_tokens[t].user_id = u
  /\ refresh_tokens[t].expires_at > now
       => validate_refresh_token(refresh_tokens, t, now).user_id = u

C12_ConcurrentLogins ==
  /\ \A p \in ProcIds :
       ( LoginCommitted(p) /\ procs[p].ret \notin removed )
       => StoredFor(procs[p].ret, procs[p].sub)
  /\ \A p \in ProcIds, q \in ProcIds :
       ( /\ p # q
         /\ LoginCommitted(p)
         /\ LoginCommitted(q)
         /\ procs[p].ret \notin removed
         /\ procs[q].ret \notin removed )
       => procs[p].ret # procs[q].ret

\* C12 witness: two logins of the same user are in flight at once, both
\* past their commit, with two different tokens stored.
C12_Witness ==
  /\ \A p \in ProcIds : LoginCommitted(p) /\ procs[p].pc = "persisted"
  /\ procs["p1"].sub = procs["p2"].sub
  /\ procs["p1"].ret # procs["p2"].ret
  /\ {procs["p1"].ret, procs["p2"].ret} \subseteq DOMAIN refresh_tokens

\* C13: the rows a revoke_all has matched stay in the table, all of
\* them, until its commit, and the commit removes all of them in one step
\* and no other row: no state has some but not all of them removed.
C13_RevokeAllAtomic ==
  /\ [](\A p \in ProcIds :
          ( procs[p].op = "revoke_all" /\ procs[p].pc = "executed" )
          => procs[p].pending \subseteq DOMAIN refresh_tokens)
  /\ [][\A p \in ProcIds :
          ( /\ procs[p].op = "revoke_all"
            /\ procs[p].pc = "executed"
            /\ procs'[p].pc = "done" )
          => /\ DOMAIN refresh_tokens' = DOMAIN refresh_tokens \ procs[p].pending
             /\ \A t \in DOMAIN refresh_tokens' :
                  refresh_tokens'[t] = refresh_tokens[t]]_vars

\* C13 witness: a revoke_all that matched two tokens has committed, none
\* of them is left, and a concurrent validate had looked one of them up.
C13_Witness ==
  \E p \in ProcIds, q \in ProcIds :
    /\ procs[p].op = "revoke_all"
    /\ procs[p].pc = "done"
    /\ Cardinality(procs[p].pending) > 1
    /\ procs[p].pending \cap DOMAIN refresh_tokens = {}
    /\ procs[q].op = "validate"
    /\ procs[q].arg \in procs[p].pending
    /\ procs[q].found # NoRow

\* C14: a validate that found an expired row returns None and does not
\* raise, whether or not another validate has deleted the row in between,
\* and the row is absent once its delete is committed.
C14_ConcurrentExpiredValidate ==
  [][\A p \in ProcIds :
       /\ ( /\ procs[p].op = "validate"
            /\ procs[p].pc = "start"
            /\ procs'[p].pc # "start"
            /\ procs[p].arg \in DOMAIN refresh_tokens
            /\ refresh_tokens[procs[p].arg].expires_at <= now )
          => /\ procs'[p].pc = "expired"
             /\ procs'[p].ret = None
       /\ ( /\ procs[p].op = "validate"
            /\ procs[p].pc = "expired"
            /\ procs'[p].pc # "expired" )
          => /\ procs'[p].pc = "done"
             /\ procs'[p].ret = None
             /\ ~procs'[p].raised
             /\ procs[p].arg \notin DOMAIN refresh_tokens']_vars

\* C14 witness: two validates of the same token both found the expired
\* row, both have deleted and returned, and the row is absent.
C14_Witness ==
  /\ \A p \in ProcIds :
       /\ procs[p].op = "validate"
       /\ procs[p].pc = "done"
       /\ procs[p].found # NoRow
       /\ procs[p].found.expires_at <= now
       /\ procs[p].ret = None
  /\ procs["p1"].arg = procs["p2"].arg
  /\ procs["p1"].found = procs["p2"].found
  /\ procs["p1"].arg \notin DOMAIN refresh_tokens

\* The client addresses get_client_ip returns for the model's requests
ClientIps == { get_client_ip(o[1], o[2]) : o \in Origins }

\* The requests of (path_identifier, client_ip) the limiter has admitted
\* within the last expiry seconds
Admitted(storage, path_identifier, client_ip, expiry, nowv) ==
  LET events == Events(storage, Key(path_identifier, client_ip))
  IN Cardinality({i \in 1..Len(events) : events[i].atime >= nowv - expiry})

\* C21: the path limiter counts per (path identifier, client IP). A
\* request to a limited path is admitted when fewer than N requests of
\* its pair were admitted within the window, and is then counted and
\* reaches the route; otherwise it is answered 429 RATE_LIMIT_EXCEEDED,
\* the route is not run and nothing is counted. No pair ever has more than
\* N admitted requests in a window, a request changes the count of no
\* other pair, a request to a path without a limit is never refused, and
\* reset_rate_limit_storage clears every count.
C21_PathRateLimit ==
  /\ [](\A i \in 1..Len(path_rate_limits), ip \in ClientIps :
          Admitted(path_storage, path_rate_limits[i][1], ip,
                   get_expiry(path_rate_limits[i][2]), now)
            <= path_rate_limits[i][2].amount)
  /\ [][last'.op = "request" =>
            LET k == MatchingLimit(last'.path)
                Count(storage, i, ip) ==
                  Admitted(storage, path_rate_limits[i][1], ip,
                           get_expiry(path_rate_limits[i][2]), now)
            IN IF k = 0
               THEN /\ path_storage' = path_storage
                    /\ last'.response.status # 429
               ELSE /\ IF Count(path_storage, k, last'.caller) < path_rate_limits[k][2].amount
                       THEN /\ last'.response.status # 429
                            /\ last'.downstream # NoResponse
                            /\ Count(path_storage', k, last'.caller)
                                 = Count(path_storage, k, last'.caller) + 1
                       ELSE /\ last'.response.status = 429
                            /\ last'.response.detail = "RATE_LIMIT_EXCEEDED"
                            /\ last'.downstream = NoResponse
                            /\ \A j \in 1..Len(trace') : trace'[j][1] # "router"
                            /\ Count(path_storage', k, last'.caller)
                                 = Count(path_storage, k, last'.caller)
                    /\ \A i \in 1..Len(path_rate_limits), ip \in ClientIps :
                         <<i, ip>> # <<k, last'.caller>>
                           => Count(path_storage', i, ip) = Count(path_storage, i, ip)
         ]_vars
  /\ [][last'.op = "reset" =>
           \A i \in 1..Len(path_rate_limits), ip \in ClientIps :
             Admitted(path_storage', path_rate_limits[i][1], ip,
                      get_expiry(path_rate_limits[i][2]), now) = 0]_vars

\* C21 witness: a login from one address was refused with 429 while the
\* same path has room for the other address and the same address has room
\* on the other path.
C21_Witness ==
  /\ last.op = "request"
  /\ last.path = LoginPath
  /\ last.response.status = 429
  /\ last.caller = "10.0.0.1"
  /\ Admitted(path_storage, LoginPath, "10.0.0.1", get_expiry(rate_limit_login), now) = 2
  /\ Admitted(path_storage, LoginPath, "10.0.0.2", get_expiry(rate_limit_login), now) = 1
  /\ Admitted(path_storage, ForgotPasswordPath, "10.0.0.1",
              get_expiry(rate_limit_forgot_password), now) = 0

\* The layers in the order the docstring of setup_all_middleware gives
\* for a request
DocumentedOrder == <<"cors", "slowapi", "path_rate_limit", "csrf", "login", "router">>

\* C25: a request that reaches its route has passed, in this order, CORS,
\* rate limiting, path rate limiting, CSRF and the login middleware, and
\* its response passes them in the reverse order.
C25_MiddlewareOrder ==
  ( /\ last.op = "request"
    /\ last.downstream # NoResponse )
  => trace = [i \in 1..(2 * Len(DocumentedOrder)) |->
                IF i <= Len(DocumentedOrder)
                THEN <<DocumentedOrder[i], "request">>
                ELSE <<DocumentedOrder[2 * Len(DocumentedOrder) + 1 - i], "response">>]

\* C22: the verification mail of a registration is issued before the
\* account is deactivated; when the registration completes, the new user
\* is inactive and unverified; a login of an inactive user is answered 400
\* LOGIN_BAD_CREDENTIALS and stores no refresh token; and the step that
\* verifies a user leaves the user active and verified, with a UserData
\* row.
C22_RegistrationLifecycle ==
  /\ [](/\ \A p \in ProcIds :
             ( procs[p].op = "register" /\ procs[p].pc = "requested" )
             => procs[p].arg \in mailbox
        /\ \A u \in DOMAIN users, token_str \in TokenStrings :
             ~users[u].is_active =>
               LET r == add_refresh_token_on_login(LoginPath, "POST", <<>>,
                                                   LoginHandler(users, u), token_str,
                                                   refresh_tokens, now, env)
               IN /\ r.response = ErrorResponse(400, "LOGIN_BAD_CREDENTIALS")
                  /\ r.store = refresh_tokens)
  /\ [][\A p \in ProcIds :
          ( /\ procs[p].op = "register"
            /\ procs[p].pc = "requested"
            /\ procs'[p].pc = "done" )
          => /\ ~users'[procs[p].arg].is_active
             /\ ~users'[procs[p].arg].is_verified]_vars
  /\ [][\A u \in DOMAIN users :
          ( ~users[u].is_verified /\ users'[u].is_verified )
          => /\ users'[u].is_active
             /\ u \in DOMAIN user_data']_vars

\* C23: a change-password request of an authenticated user with a wrong
\* current password is answered 400 CHANGE_PASSWORD_INVALID_CURRENT and
\* leaves every stored password unchanged; with the correct current
\* password it is answered 200 and replaces the caller's password, so
\* that a login of the caller then succeeds with the new password and
\* fails with every other one (the old one, when the new one differs
\* from it, included).
C23_ChangePassword ==
  [][last'.op = "change_password" /\ Authenticated(users, last'.caller) =>
       LET caller == last'.caller
           current_password == last'.form[1]
           new_password == last'.form[2]
       IN IF ~verify_and_update(current_password, hashed_password[caller])
          THEN /\ last'.response = ErrorResponse(400, "CHANGE_PASSWORD_INVALID_CURRENT")
               /\ hashed_password' = hashed_password
          ELSE /\ last'.response.status = 200
               /\ \A u \in UserIds \ {caller} : hashed_password'[u] = hashed_password[u]
               /\ \A password \in Passwords :
                    LoginHandler(users', authenticate(users', hashed_password',
                                                      caller, password))
                    = IF password = new_password
                      THEN TokenResponse(caller)
                      ELSE ErrorResponse(400, "LOGIN_BAD_CREDENTIALS")]_vars

C23_Witness ==
  /\ last.op = "change_password"
  /\ last.response.status = 200
  /\ last.form[1] # last.form[2]
  /\ hashed_password[last.caller] = PasswordHash(last.form[2])

\* C24: an admin login succeeds, and records the user as admin_user_id in
\* the session, only when the user exists, the password verifies and the
\* user is superuser and active (a refused login leaves the session as it
\* was); a later admin request of a session that holds an admin_user_id is
\* accepted only if that user still exists and is still superuser and
\* active, and otherwise the session is cleared and the request is
\* redirected to the admin login page.
C24_AdminAuth ==
  /\ [][last'.op = "admin_login" =>
          LET email == last'.caller
              password == last'.form[1]
          IN /\ last'.ret_bool <=> /\ email \in DOMAIN users
                                   /\ verify_and_update(password, hashed_password[email])
                                   /\ is_superuser[email]
                                   /\ users[email].is_active
             /\ last'.ret_bool => session' = Put(session, "admin_user_id", email)
             /\ ~last'.ret_bool => session' = session]_vars
  /\ [][last'.op = "admin_request" /\ SessionGet(session, "admin_user_id") # None =>
          LET admin_user_id == SessionGet(session, "admin_user_id")
          IN IF /\ admin_user_id \in DOMAIN users
                /\ is_superuser[admin_user_id]
                /\ users[admin_user_id].is_active
             THEN /\ last'.ret_bool
                  /\ session' = session
             ELSE /\ ~last'.ret_bool
                  /\ last'.response = RedirectResponse("admin:login")
                  /\ session' = EmptyTable]_vars

C24_Witness ==
  /\ last.op = "admin_request"
  /\ last.caller # None
  /\ ~last.ret_bool
  /\ last.response = RedirectResponse("admin:login")
  /\ session = EmptyTable

\* C26: a run of cleanup_expired_tokens removes exactly the refresh tokens
\* with expires_at <= now and reports their number; in every reachable
\* store a token that validate_refresh_token accepts now survives a sweep
\* run now; and a validate or a refresh call made now or at any later
\* instant gives the same result on the swept store as on the unswept one
\* and leaves stores that still hold the same unexpired tokens.
C26_CleanupExpired ==
  /\ last.op = "cleanup" =>
       LET expired == {t \in DOMAIN last.pre : last.pre[t].expires_at <= now}
       IN /\ refresh_tokens = Remove(last.pre, expired)
          /\ last.response.revoked = Cardinality(expired)
  /\ LET swept == cleanup_expired_tokens(refresh_tokens, now).store
     IN /\ \A t \in TokenStrings :
             validate_refresh_token(refresh_tokens, t, now).user_id # None
             => /\ t \in DOMAIN swept
                /\ swept[t] = refresh_tokens[t]
        /\ \A cookie \in CookieValues, later \in now..(MaxTime + 1) :
             LET a == refresh_access_token(users, swept, cookie, later)
                 b == refresh_access_token(users, refresh_tokens, cookie, later)
                 va == validate_refresh_token(swept, cookie, later)
                 vb == validate_refresh_token(refresh_tokens, cookie, later)
             IN /\ a.response = b.response
                /\ va.user_id = vb.user_id
                /\ cleanup_expired_tokens(a.store, later).store
                   = cleanup_expired_tokens(b.store, later).store
                /\ cleanup_expired_tokens(va.store, later).store
                   = cleanup_expired_tokens(vb.store, later).store

C26_Witness ==
  /\ last.op = "cleanup"
  /\ last.response.revoked > 0
  /\ refresh_tokens # EmptyTable

\* C27: a logout removes only refresh tokens owned by the authenticated
\* caller: every token that was stored before the request and is gone
\* after it belonged to the caller, so a cookie that holds another
\* user's stored token does not revoke it.
C27_LogoutOwnTokenOnly ==
  last.op = "logout" =>
    \A t \in DOMAIN last.pre :
       t \notin DOMAIN refresh_tokens => last.pre[t].user_id = last.caller

\* C28: no login issues tokens for an inactive user: when a password
\* login, a refresh or a Firebase login answers with an access token, the
\* user it names is active, and every refresh token the request has
\* created belongs to an active user.
C28_NoTokensForInactiveUsers ==
  last.op \in {"login", "refresh", "firebase"} =>
    /\ last.response.access_token # None =>
         /\ last.response.sub \in DOMAIN users
         /\ users[last.response.sub].is_active
    /\ \A t \in DOMAIN refresh_tokens :
         ( t \notin DOMAIN last.pre \/ refresh_tokens[t] # last.pre[t] )
         => /\ refresh_tokens[t].user_id \in DOMAIN users
            /\ users[refresh_tokens[t].user_id].is_active

\* C29: of the concurrent revoke_refresh_token calls for one stored token
\* exactly one returns true, the one that removed the row: a call whose
\* delete finds the row already removed by another call returns false,
\* and no call raises.
C29_ConcurrentRevoke ==
  [][\A p \in ProcIds :
       ( /\ procs[p].op = "revoke"
         /\ procs[p].pc = "found"
         /\ procs'[p].pc = "done" )
       => /\ ~procs'[p].raised
          /\ procs[p].arg \in DOMAIN refresh_tokens => procs'[p].ret = "True"
          /\ \A q \in ProcIds \ {p} :
                ( /\ procs[q].op = "revoke"
                  /\ procs[q].arg = procs[p].arg
                  /\ procs[q].pc = "done"
                  /\ procs[q].ret = "True"
                  /\ procs[p].arg \notin DOMAIN refresh_tokens )
                => procs'[p].ret = "False"]_vars

\* C30: a get-or-create of a user's UserData (get_user_data,
\* update_user_data, email verification) never fails and leaves the user
\* with its UserData row, also when two of them for the same user
\* interleave so that both observe no row; a request that completed
\* returns the row of its own user.
C30_UserDataGetOrCreate ==
  \A p \in ProcIds :
     ( procs[p].op \in UserDataOps /\ procs[p].pc = "done" )
     => /\ ~procs[p].raised
        /\ procs[p].ret = procs[p].arg
        /\ procs[p].arg \in DOMAIN user_data

====
